---- MODULE Spec2Model ----
(***************************************************************************)
(* A model of the synify backend: the Express routers auth, playlists and  *)
(* songs, the JWT middleware that guards them, and the relational store    *)
(* (Prisma over the tables of the init migration) they read and write.     *)
(*                                                                         *)
(* A request occupies one slot of Reqs.  Node runs a handler without       *)
(* interruption between two awaits, so one action is one such stretch: the *)
(* dispatch action runs the middleware chain and the handler's synchronous *)
(* prefix, every later action is one awaited call together with the code   *)
(* that follows it up to the next await.  Requests in different slots      *)
(* interleave at these points, and so do the promises a handler starts     *)
(* without awaiting them (the variable tasks).                             *)
(***************************************************************************)
EXTENDS Integers, Sequences, FiniteSets, TLC

\* Number of requests one behaviour serves (a slot is used once).
MaxReq == 2
\* Last instant of the clock that jwt.verify compares a token's exp with.
MaxNow == 2

Reqs == 1..MaxReq

NoVal == "<undefined>"
\* A field that should hold an array and holds none (<<>> is the empty array).
NoArray == << NoVal >>

VARIABLES
    users,      \* table User: set of rows
    songs,      \* table Song: set of rows
    playlists,  \* table Playlist: set of rows
    items,      \* table PlaylistItem: set of rows
    history,    \* table PlayHistory: set of rows
    blobs,      \* keys of the objects in the R2 bucket
    tasks,      \* promises started and not awaited, still pending
    nextId,     \* source of fresh row ids (cuid)
    now,        \* the clock
    req,        \* per slot: the request (route, header, params, body)
    pc,         \* per slot: where the handler stands
    user,       \* per slot: req.user, the identity requireAuth attached
    local,      \* per slot: the handler's local variables
    resp,       \* per slot: the response sent (status 0: none yet)
    calls,      \* per slot: the side-effecting calls the request has issued
    faults,     \* per slot: the collaborator calls that failed on the request
    artists,    \* table Artist: set of rows
    songArtists,        \* table _ArtistToSong: set of (artist, song) pairs
    env,                \* process.env: which credentials are configured
    spotifyAccessToken, \* the cached enrichment token (songs.ts, module level)
    spotifyTokenExpiry, \* its expiry, in ms of the clock
    lookups,    \* the enrichArtistMetadata calls started, pending or settled
    trace       \* per slot: the calls of the run that have settled, in order

dbVars  == <<users, songs, playlists, items, history, blobs>>
catalogVars == <<artists, songArtists>>
runVars == <<env, spotifyAccessToken, spotifyTokenExpiry, lookups, trace>>
vars    == <<users, songs, playlists, items, history, blobs, tasks, nextId,
             now, req, pc, user, local, resp, calls, faults, artists,
             songArtists, env, spotifyAccessToken, spotifyTokenExpiry,
             lookups, trace>>

----------------------------------------------------------------------------
(* Session tokens and the middleware (middleware/auth).                    *)

JWT_SECRET == "secret"
NoUser == [userId |-> NoVal, email |-> NoVal, role |-> NoVal]

\* The identities that tokens carry.
Identities ==
    { [userId |-> "u1", email |-> "e1", role |-> "USER"],
      [userId |-> "u2", email |-> "e2", role |-> "USER"],
      [userId |-> "a1", email |-> "e3", role |-> "ADMIN"] }

\* A token: the payload it was signed over, the key it was signed with, its
\* exp claim, and whether the string is a JWT at all.
Token(p, k, e, wf) == [payload |-> p, key |-> k, exp |-> e, wellFormed |-> wf]

\* signToken: a 7-day token signed with the server's secret (the model's
\* clock ends before any such token expires).
signToken(payload) == Token(payload, JWT_SECRET, MaxNow + 1, TRUE)

GoodTokens == { signToken(p) : p \in Identities }

BadTokens ==
    { Token(p, "forged", MaxNow + 1, TRUE) : p \in Identities } \cup
    { Token(p, JWT_SECRET, 1, TRUE) : p \in Identities } \cup
    { Token(NoUser, JWT_SECRET, MaxNow + 1, FALSE) }

NoHeader == [scheme |-> "none", token |-> Token(NoUser, "none", 0, FALSE)]
Bearer(t) == [scheme |-> "Bearer", token |-> t]
Basic(t) == [scheme |-> "Basic", token |-> t]

ValidHeaders == { Bearer(t) : t \in GoodTokens }
\* The headers of the requests a router is checked with: the playlists router
\* by the owner of the seeded playlist and by another user, the songs router
\* by a user and by an admin.
PlaylistHeaders ==
    { Bearer(signToken(p)) : p \in { q \in Identities : q.role = "USER" } }
SongHeaders ==
    { Bearer(signToken(p)) : p \in { q \in Identities : q.userId # "u2" } }
AdminHeaders ==
    { Bearer(signToken(p)) : p \in { q \in Identities : q.role = "ADMIN" } }
AllHeaders ==
    {NoHeader} \cup { Bearer(t) : t \in GoodTokens \cup BadTokens }
               \cup { Basic(t) : t \in GoodTokens }

\* jwt.verify(token, secret): throws on a malformed string, a signature made
\* with another key, or an exp that has passed; otherwise the payload.
jwtVerify(t, clock) ==
    IF t.wellFormed /\ t.key = JWT_SECRET /\ clock < t.exp
    THEN [ok |-> TRUE, payload |-> t.payload]
    ELSE [ok |-> FALSE, payload |-> NoUser]

\* The outcome of a middleware: whether it called next(), the status it
\* answered otherwise, and req.user afterwards.
MwNext(u) == [next |-> TRUE, status |-> 0, user |-> u]
MwStop(s, u) == [next |-> FALSE, status |-> s, user |-> u]

requireAuthAnyScheme(hdr, clock) ==
    IF hdr.scheme = "none" THEN MwStop(401, NoUser)
    ELSE IF jwtVerify(hdr.token, clock).ok
         THEN MwNext(jwtVerify(hdr.token, clock).payload)
         ELSE MwStop(401, NoUser)

requireAuth(hdr, clock) ==
    IF hdr.scheme # "Bearer" THEN MwStop(401, NoUser)
    ELSE IF jwtVerify(hdr.token, clock).ok
         THEN MwNext(jwtVerify(hdr.token, clock).payload)
         ELSE MwStop(401, NoUser)

requireAdminNoRole(u) ==
    IF u = NoUser THEN MwStop(401, u) ELSE MwNext(u)

requireAdminStoredRole(u) ==
    IF u = NoUser THEN MwStop(401, u)
    ELSE IF \A x \in users : x.id = u.userId => x.role # "ADMIN"
    THEN MwStop(403, u)
    ELSE MwNext(u)

requireAdmin(u) ==
    IF u = NoUser THEN MwStop(401, u)
    ELSE IF u.role # "ADMIN" THEN MwStop(403, u)
    ELSE MwNext(u)

----------------------------------------------------------------------------
(* Routes.                                                                 *)

PlaylistRoutes == {"GET /playlists/:id", "POST /playlists/:id/songs",
                   "PATCH /playlists/:id", "DELETE /playlists/:id"}

SongUserRoutes == {"GET /songs/:id", "POST /songs/:id/play",
                   "POST /songs/:id/stream-url"}

SongAdminRoutes == {"POST /songs/:id/generate-lyrics", "PATCH /songs/:id",
                    "DELETE /songs/:id"}

\* The routes registered with no middleware.
PublicRoutes == {"POST /auth/login"}

\* The preview and the ingestion routes of the songs router (admin only).
PreviewRoutes == {"POST /songs/yt-preview", "POST /songs/spotify-preview"}
IngestRoutes == {"POST /songs/yt-download", "POST /songs/spotify-download"}

\* The routes registered with requireAdmin after requireAuth.
AdminRoutes == SongAdminRoutes \cup PreviewRoutes \cup IngestRoutes
               \cup {"POST /songs"}

\* router.<method>(path, requireAuth[, requireAdmin], handler): the chain run
\* before the handler.
RunMiddleware(route, hdr, clock) ==
    LET a == requireAuth(hdr, clock) IN
    IF route \in PublicRoutes THEN MwNext(NoUser)
    ELSE IF ~a.next THEN a
    ELSE IF route \in AdminRoutes THEN requireAdmin(a.user)
    ELSE a

----------------------------------------------------------------------------
(* The relational store: rows, the seed, and the Prisma calls the handlers *)
(* make, each with the constraints of the migration that can reject it.    *)

UserRow(id, g, e, n, a, role) ==
    [id |-> id, googleId |-> g, email |-> e, name |-> n, avatarUrl |-> a,
     role |-> role]
SongRow(id, title, key, plays, lyrics) ==
    [id |-> id, title |-> title, audioKey |-> key, playCount |-> plays,
     lyrics |-> lyrics]
PlaylistRow(id, uid, name) == [id |-> id, userId |-> uid, name |-> name]
ItemRow(id, pl, s, pos) ==
    [id |-> id, playlistId |-> pl, songId |-> s, position |-> pos]
HistoryRow(id, uid, s) == [id |-> id, userId |-> uid, songId |-> s]

SeedUsers ==
    { UserRow("u1", NoVal, "e1", "Demo User", NoVal, "USER"),
      UserRow("u2", NoVal, "e2", "Other User", NoVal, "USER"),
      UserRow("a1", NoVal, "e3", "Admin", NoVal, "ADMIN") }
SeedSongs == { SongRow("s1", "Gajah", "audio/song-01.mp3", 0, NoVal),
               SongRow("s2", "Bumerang", "audio/song-02.mp3", 0, NoVal) }
ArtistRow(id, name, avatarUrl, bio) ==
    [id |-> id, name |-> name, avatarUrl |-> avatarUrl, bio |-> bio]
SeedArtists == { ArtistRow("artist-01", "Tulus", NoVal, "bio"),
                 ArtistRow("artist-02", "Raisa", NoVal, "bio") }
Link(a, s) == [artistId |-> a, songId |-> s]
SeedSongArtists == { Link("artist-01", "s1"), Link("artist-01", "s2") }

\* process.env: the credentials of the AI endpoint and of the enrichment
\* provider, each configured or not.
Env(ai, spotify) == [OPENROUTER_API_KEY |-> ai, SPOTIFY_CLIENT |-> spotify]
Configured == Env(TRUE, TRUE)

SeedPlaylists == { PlaylistRow("p1", "u1", "Favoritku") }

\* Ids a request may name: seeded rows and one id of no row.
SongIdParams == {"s1", "s0"}
SongIdBodies == {"s1", "s2", "s0"}
SourceUrls == {"https://source/track"}
\* The artistId of a body: none, an empty array, the id of a seeded artist,
\* an id of no artist, two ids of no artist.
ArtistIdBodies == { NoArray, <<>>, <<"artist-01">>, <<"artist-03">>,
                    <<"artist-03", "artist-04">> }
\* The audioKey of the body of POST /songs: none, the key of a seeded song's
\* blob, a key no song has.
AudioKeyBodies == { NoVal, "audio/song-01.mp3", "audio/new.mp3" }
\* The title and artistNames of an ingestion's body: none, a title, a list
\* of names, both, an empty list of names.
CustomBodies == {"none", "title", "names", "full", "noNames"}
CustomTitle == <<"Custom">>
CustomNames == <<"Raisa">>
PlaylistIdParams == {"p1", "p0"}

Ids(table) == { row.id : row \in table }
RowOf(table, id) == CHOOSE row \in table : row.id = id

Max(S) == CHOOSE x \in S : \A y \in S : y <= x

\* The ID tokens a login may carry (the body's idToken), and what
\* googleClient.verifyIdToken makes of each: it throws, or gives the payload
\* of the ticket (sub, email, name, picture), the email possibly absent.
IdTokens == {"alice", "alice-renamed", "bob", "bob-with-alice-sub",
             "no-email", "invalid"}

Ticket(ok, sub, email, name, picture) ==
    [ok |-> ok, sub |-> sub, email |-> email, name |-> name,
     picture |-> picture]

verifyIdToken(idToken) ==
    CASE idToken = "alice" -> Ticket(TRUE, "g1", "e1", "Alice", "pic1")
      [] idToken = "alice-renamed" -> Ticket(TRUE, "g1", "e1", NoVal, NoVal)
      [] idToken = "bob" -> Ticket(TRUE, "g2", "e4", "Bob", NoVal)
      [] idToken = "bob-with-alice-sub" ->
           Ticket(TRUE, "g1", "e4", "Bob", NoVal)
      [] idToken = "no-email" -> Ticket(TRUE, "g3", NoVal, "Carol", NoVal)
      [] OTHER -> Ticket(FALSE, NoVal, NoVal, NoVal, NoVal)

\* The id Prisma gives a created User row.
NewUserId(n) == "user-" \o ToString(n)

\* The row prisma.user.upsert writes from a ticket: the update of the row the
\* lookup found (googleId, name, avatarUrl), or the row created.
userUpsertRow(found, n, t) ==
    IF found # {}
    THEN LET u == CHOOSE x \in found : TRUE
         IN  [u EXCEPT !.googleId = t.sub,
                       !.name = IF t.name # NoVal THEN t.name ELSE t.email,
                       !.avatarUrl = t.picture]
    ELSE UserRow(NewUserId(n), t.sub, t.email,
                 IF t.name # NoVal THEN t.name ELSE t.email, t.picture, "USER")

\* The unique indexes of User (email, googleId; a NULL googleId collides with
\* nothing) against writing row in place of the rows old.
userUniqueIgnoringEmail(us, old, row) ==
    IF \E u \in us \ old :
          row.googleId # NoVal /\ u.googleId = row.googleId
    THEN "P2002" ELSE "ok"

userUniqueIgnoringGoogleId(us, old, row) ==
    IF \E u \in us \ old : u.email = row.email THEN "P2002" ELSE "ok"

userUnique(us, old, row) ==
    IF \E u \in us \ old :
          \/ u.email = row.email
          \/ row.googleId # NoVal /\ u.googleId = row.googleId
    THEN "P2002" ELSE "ok"

\* prisma.playlist.findFirst({ where: { id, userId } }): rows, empty for null.
playlistFindFirstAnyOwner(pls, id, uid) ==
    { p \in pls : p.id = id }

playlistFindFirst(pls, id, uid) ==
    { p \in pls : p.id = id /\ p.userId = uid }

\* prisma.playlistItem.findFirst({ where: { playlistId }, orderBy: { position:
\* 'desc' } }) and the handler's (lastItem?.position ?? 0) + 1.
nextPosition(its, id) ==
    LET ps == { i.position : i \in { j \in its : j.playlistId = id } }
    IN  (IF ps = {} THEN 0 ELSE Max(ps)) + 1

\* prisma.playlistItem.create: the foreign keys of PlaylistItem, then the
\* unique index on (playlistId, songId); "ok" stands for the inserted row.
playlistItemCreateNoUnique(its, pls, sgs, pl, s) ==
    IF pl \notin Ids(pls) \/ s \notin Ids(sgs) THEN "P2003"
    ELSE "ok"

playlistItemCreate(its, pls, sgs, pl, s) ==
    IF pl \notin Ids(pls) \/ s \notin Ids(sgs) THEN "P2003"
    ELSE IF \E i \in its : i.playlistId = pl /\ i.songId = s THEN "P2002"
    ELSE "ok"

----------------------------------------------------------------------------
(* Requests.                                                               *)

Request(route, hdr, in) ==
    [route |-> route, hdr |-> hdr, id |-> in.id, songId |-> in.songId,
     name |-> in.name, url |-> in.url, artistId |-> in.artistId,
     custom |-> in.custom, audioKey |-> in.audioKey]
NoInput == [id |-> NoVal, songId |-> NoVal, name |-> NoVal, url |-> NoVal,
            artistId |-> NoArray, custom |-> NoVal, audioKey |-> NoVal]
NoRequest == Request(NoVal, NoHeader, NoInput)

Response(status, body) == [status |-> status, body |-> body]
NoResponse == Response(0, NoVal)

NoLocal == [position |-> 0, audioKey |-> NoVal, userId |-> NoVal,
            attempt |-> 0, rawTitle |-> <<>>,
            initialResult |-> [title |-> <<>>, artists |-> <<>>],
            title |-> <<>>, names |-> <<>>,
            token |-> Token(NoUser, "none", 0, FALSE)]

\* What a request of a route may carry: the :id parameter and the body.
Inputs(route) ==
    CASE route = "POST /playlists/:id/songs" ->
           { [NoInput EXCEPT !.id = i, !.songId = s, !.name = NoVal] :
               i \in PlaylistIdParams, s \in SongIdBodies \cup {NoVal} }
      [] route = "PATCH /playlists/:id" ->
           { [NoInput EXCEPT !.id = i, !.songId = NoVal, !.name = n] :
               i \in PlaylistIdParams, n \in {NoVal, "Renamed"} }
      [] route \in PlaylistRoutes ->
           { [NoInput EXCEPT !.id = i, !.songId = NoVal, !.name = NoVal] :
               i \in PlaylistIdParams }
      [] route = "POST /auth/login" ->
           { [NoInput EXCEPT !.id = t, !.songId = NoVal, !.name = NoVal] :
               t \in IdTokens \cup {NoVal} }
      [] route \in PreviewRoutes ->
           { [NoInput EXCEPT !.url = u] : u \in SourceUrls \cup {NoVal} }
      [] route = "POST /songs" ->
           { [NoInput EXCEPT !.audioKey = k, !.artistId = a] :
               k \in AudioKeyBodies,
               a \in { NoArray, <<>>, <<"artist-01">>, <<"artist-03">> } }
      [] route \in IngestRoutes ->
           { [NoInput EXCEPT !.url = u, !.artistId = a, !.custom = c] :
               u \in SourceUrls \cup {NoVal}, a \in ArtistIdBodies,
               c \in CustomBodies }
      [] route = "PATCH /songs/:id" ->
           { [NoInput EXCEPT !.id = i, !.songId = NoVal, !.name = n] :
               i \in SongIdParams, n \in {NoVal, "Retitled"} }
      [] OTHER ->
           { [NoInput EXCEPT !.id = i, !.songId = NoVal, !.name = NoVal] :
               i \in SongIdParams }

\* The handler's code before its first await: the 400 of a missing field, or
\* the first awaited call.
Entry(route, in) ==
    IF route = "POST /playlists/:id/songs" /\ in.songId = NoVal
    THEN [pc |-> "done", resp |-> Response(400, "songId wajib diisi.")]
    ELSE IF route = "POST /auth/login" /\ in.id = NoVal
    THEN [pc |-> "done", resp |-> Response(400, "idToken wajib diisi.")]
    ELSE IF route = "POST /songs"
            /\ (in.audioKey = NoVal \/ in.artistId = NoArray)
    THEN [pc |-> "done",
          resp |-> Response(400, "title, durationSec, audioKey, dan artistId wajib diisi.")]
    ELSE IF route \in PreviewRoutes \cup IngestRoutes /\ in.url = NoVal
    THEN [pc |-> "done", resp |-> Response(400, "url wajib diisi.")]
    ELSE [pc |-> route, resp |-> NoResponse]

\* A request arrives in slot r: the middleware chain runs, then the handler up
\* to its first await.  Slots are taken in order.
Dispatch(r, routes, hdrs) ==
    /\ pc[r] = "idle"
    /\ IF r = 1 THEN TRUE ELSE pc[r - 1] # "idle"
    /\ \E route \in routes, h \in hdrs :
         \E in \in Inputs(route) :
           LET m == RunMiddleware(route, h, now)
               e == IF m.next THEN Entry(route, in)
                    ELSE [pc |-> "done", resp |-> Response(m.status, "error")]
           IN  /\ req' = [req EXCEPT ![r] =
                             Request(route, h, in)]
               /\ user' = [user EXCEPT ![r] = m.user]
               /\ pc' = [pc EXCEPT ![r] = e.pc]
               /\ resp' = [resp EXCEPT ![r] = e.resp]
    /\ UNCHANGED <<dbVars, tasks, nextId, now, local, calls,
                   faults>>
    /\ UNCHANGED <<catalogVars, runVars>>

\* The handler of slot r answers and ends.
Reply(r, status, body) ==
    /\ pc' = [pc EXCEPT ![r] = "done"]
    /\ resp' = [resp EXCEPT ![r] = Response(status, body)]

Goto(r, label) ==
    /\ pc' = [pc EXCEPT ![r] = label]
    /\ UNCHANGED resp

Issue(r, cs) == calls' = [calls EXCEPT ![r] = @ \cup cs]

----------------------------------------------------------------------------
(* routes/playlists.                                                       *)

\* GET /playlists/:id
GetPlaylist(r) ==
    /\ pc[r] = "GET /playlists/:id"
    /\ IF req[r].id \in Ids(playlists)
       THEN Reply(r, 200, "playlist")
       ELSE Reply(r, 404, "Playlist tidak ditemukan.")
    /\ UNCHANGED <<dbVars, tasks, nextId, now, req, user, local, calls,
                   faults>>
    /\ UNCHANGED <<catalogVars, runVars>>

\* POST /playlists/:id/songs: the ownership lookup.
AddSongFindPlaylist(r) ==
    /\ pc[r] = "POST /playlists/:id/songs"
    /\ IF playlistFindFirst(playlists, req[r].id, user[r].userId) = {}
       THEN Reply(r, 403, "Tidak diizinkan.")
       ELSE Goto(r, "add:findLast")
    /\ UNCHANGED <<dbVars, tasks, nextId, now, req, user, local, calls,
                   faults>>
    /\ UNCHANGED <<catalogVars, runVars>>

\* POST /playlists/:id/songs: the lookup of the last position.
AddSongFindLast(r) ==
    /\ pc[r] = "add:findLast"
    /\ local' = [local EXCEPT ![r].position = nextPosition(items, req[r].id)]
    /\ Goto(r, "add:create")
    /\ UNCHANGED <<dbVars, tasks, nextId, now, req, user, calls,
                   faults>>
    /\ UNCHANGED <<catalogVars, runVars>>

\* POST /playlists/:id/songs: the insert and the answer.
AddSongCreate(r) ==
    /\ pc[r] = "add:create"
    /\ Issue(r, {"playlistItem.create"})
    /\ LET out == playlistItemCreate(items, playlists, songs, req[r].id,
                                     req[r].songId)
       IN  IF out = "ok"
           THEN /\ items' = items \cup
                      { ItemRow(nextId, req[r].id, req[r].songId,
                                local[r].position) }
                /\ nextId' = nextId + 1
                /\ Reply(r, 201, "item")
           ELSE /\ UNCHANGED <<items, nextId>>
                /\ IF out = "P2002"
                   THEN Reply(r, 409, "Lagu sudah ada di playlist.")
                   ELSE Reply(r, 500, "Gagal menambah lagu ke playlist.")
    /\ UNCHANGED <<users, songs, playlists, history, blobs, tasks, now, req,
                   user, local, faults>>
    /\ UNCHANGED <<catalogVars, runVars>>

\* PATCH /playlists/:id: the ownership lookup.
PatchPlaylistFind(r) ==
    /\ pc[r] = "PATCH /playlists/:id"
    /\ IF playlistFindFirst(playlists, req[r].id, user[r].userId) = {}
       THEN Reply(r, 403, "Tidak diizinkan.")
       ELSE Goto(r, "patch:update")
    /\ UNCHANGED <<dbVars, tasks, nextId, now, req, user, local, calls,
                   faults>>
    /\ UNCHANGED <<catalogVars, runVars>>

\* PATCH /playlists/:id: the update (P2025 when the row is gone) and the answer.
PatchPlaylistUpdate(r) ==
    /\ pc[r] = "patch:update"
    /\ Issue(r, {"playlist.update"})
    /\ IF req[r].id \in Ids(playlists)
       THEN /\ playlists' =
                 { IF p.id = req[r].id /\ req[r].name # NoVal
                   THEN [p EXCEPT !.name = req[r].name] ELSE p :
                   p \in playlists }
            /\ Reply(r, 200, "playlist")
       ELSE /\ UNCHANGED playlists
            /\ Reply(r, 500, "Gagal update playlist.")
    /\ UNCHANGED <<users, songs, items, history, blobs, tasks, nextId, now,
                   req, user, local, faults>>
    /\ UNCHANGED <<catalogVars, runVars>>

\* DELETE /playlists/:id: the ownership lookup.
DeletePlaylistFind(r) ==
    /\ pc[r] = "DELETE /playlists/:id"
    /\ IF playlistFindFirst(playlists, req[r].id, user[r].userId) = {}
       THEN Reply(r, 403, "Tidak diizinkan.")
       ELSE Goto(r, "delete:delete")
    /\ UNCHANGED <<dbVars, tasks, nextId, now, req, user, local, calls,
                   faults>>
    /\ UNCHANGED <<catalogVars, runVars>>

\* DELETE /playlists/:id: the delete, cascading to the playlist's items.
DeletePlaylistDelete(r) ==
    /\ pc[r] = "delete:delete"
    /\ Issue(r, {"playlist.delete"})
    /\ IF req[r].id \in Ids(playlists)
       THEN /\ playlists' = { p \in playlists : p.id # req[r].id }
            /\ items' = { i \in items : i.playlistId # req[r].id }
            /\ Reply(r, 200, "Playlist berhasil dihapus.")
       ELSE /\ UNCHANGED <<playlists, items>>
            /\ Reply(r, 500, "Gagal menghapus playlist.")
    /\ UNCHANGED <<users, songs, history, blobs, tasks, nextId, now, req,
                   user, local, faults>>
    /\ UNCHANGED <<catalogVars, runVars>>

----------------------------------------------------------------------------
(* routes/auth.                                                            *)

\* POST /auth/login: the ID token verified with Google; a token Google
\* rejects throws into the catch, a ticket without email is answered 400.
LoginVerify(r) ==
    /\ pc[r] = "POST /auth/login"
    /\ LET t == verifyIdToken(req[r].id)
       IN  IF ~t.ok THEN Reply(r, 500, "Gagal melakukan autentikasi.")
           ELSE IF t.email = NoVal
                THEN Reply(r, 400, "Token Google tidak valid.")
                ELSE Goto(r, "login:upsert")
    /\ UNCHANGED <<dbVars, tasks, nextId, now, req, user, local, calls,
                   faults>>
    /\ UNCHANGED <<catalogVars, runVars>>

\* POST /auth/login: the upsert's lookup of the row by email.
LoginUpsertFind(r) ==
    /\ pc[r] = "login:upsert"
    /\ LET found == { u \in users : u.email = verifyIdToken(req[r].id).email }
       IN  local' = [local EXCEPT ![r].userId =
                        IF found = {} THEN NoVal
                        ELSE (CHOOSE u \in found : TRUE).id]
    /\ Goto(r, "login:write")
    /\ UNCHANGED <<dbVars, tasks, nextId, now, req, user, calls, faults>>
    /\ UNCHANGED <<catalogVars, runVars>>

\* POST /auth/login: the upsert's write (update of the row found, or insert),
\* then the session token signed and the answer, which carries the user's id.
LoginUpsertWrite(r) ==
    /\ pc[r] = "login:write"
    /\ Issue(r, {"user.upsert"})
    /\ LET t == verifyIdToken(req[r].id)
           old == { u \in users : u.id = local[r].userId }
           row == userUpsertRow(old, nextId, t)
       IN  IF userUnique(users, old, row) = "ok"
           THEN /\ users' = (users \ old) \cup {row}
                /\ nextId' = IF old = {} THEN nextId + 1 ELSE nextId
                /\ local' = [local EXCEPT ![r].token =
                                signToken([userId |-> row.id,
                                           email |-> row.email,
                                           role |-> row.role])]
                /\ Reply(r, 200, row.id)
           ELSE /\ UNCHANGED <<users, nextId, local>>
                /\ Reply(r, 500, "Gagal melakukan autentikasi.")
    /\ UNCHANGED <<songs, playlists, items, history, blobs, tasks, now, req,
                   user, faults>>
    /\ UNCHANGED <<catalogVars, runVars>>

----------------------------------------------------------------------------
(* routes/songs.  Every awaited call of a collaborator (the store, the     *)
(* URL signer, the AI endpoint) either answers or rejects; a rejection a   *)
(* request met is remembered in faults.                                    *)

Outcomes == {"ok", "reject"}

Fault(r, out, call) ==
    faults' = [faults EXCEPT ![r] = IF out = "reject" THEN @ \cup {call} ELSE @]

\* A promise started and left pending: prisma.playHistory.create(...) of
\* stream-url, r2Client.send(DeleteObjectCommand) of DELETE /songs/:id.
HistoryTask(n, r, uid, s) ==
    [id |-> n, kind |-> "playHistory.create", slot |-> r, userId |-> uid,
     songId |-> s, key |-> NoVal]
BlobDeleteTask(n, r, key) ==
    [id |-> n, kind |-> "r2.delete", slot |-> r, userId |-> NoVal,
     songId |-> NoVal, key |-> key]

playHistoryCreateNoForeignKey(us, sgs, uid, s) == "ok"

\* prisma.playHistory.create: the foreign keys of PlayHistory.
playHistoryCreate(us, sgs, uid, s) ==
    IF uid \in Ids(us) /\ s \in Ids(sgs) THEN "ok" ELSE "P2003"

\* GET /songs/:id
GetSong(r) ==
    /\ pc[r] = "GET /songs/:id"
    /\ \E out \in Outcomes :
         /\ Fault(r, out, "song.findUnique")
         /\ IF out = "reject"
            THEN Reply(r, 500, "Gagal mengambil detail lagu.")
            ELSE IF req[r].id \in Ids(songs)
                 THEN Reply(r, 200, "song")
                 ELSE Reply(r, 404, "Lagu tidak ditemukan.")
    /\ UNCHANGED <<dbVars, tasks, nextId, now, req, user, local, calls>>
    /\ UNCHANGED <<catalogVars, runVars>>

\* POST /songs/:id/play: the increment (P2025 when no row has the id).
PlayUpdate(r) ==
    /\ pc[r] = "POST /songs/:id/play"
    /\ Issue(r, {"song.update"})
    /\ \E out \in Outcomes :
         /\ Fault(r, out, "song.update")
         /\ IF out = "reject" \/ req[r].id \notin Ids(songs)
            THEN /\ UNCHANGED songs
                 /\ Reply(r, 500, "Gagal update play count.")
            ELSE /\ songs' = { IF s.id = req[r].id
                               THEN [s EXCEPT !.playCount = @ + 1] ELSE s :
                               s \in songs }
                 /\ Goto(r, "play:history")
    /\ UNCHANGED <<users, playlists, items, history, blobs, tasks, nextId,
                   now, req, user, local>>
    /\ UNCHANGED <<catalogVars, runVars>>

\* The status POST /songs/:id/play answers with once the history append has
\* settled: its .catch logs a failure and resolves.
playHistoryUncaught(failed) == IF failed THEN 500 ELSE 200

playHistoryCaught(failed) == 200

\* POST /songs/:id/play: the awaited history row, its failure caught and
\* logged, and the answer.
PlayHistory(r) ==
    /\ pc[r] = "play:history"
    /\ Issue(r, {"playHistory.create"})
    /\ \E out \in Outcomes :
         /\ Fault(r, out, "playHistory.create")
         /\ IF out = "ok" /\ playHistoryCreate(users, songs, user[r].userId,
                                               req[r].id) = "ok"
            THEN /\ history' = history \cup
                      { HistoryRow(nextId, user[r].userId, req[r].id) }
                 /\ nextId' = nextId + 1
            ELSE UNCHANGED <<history, nextId>>
         /\ Reply(r, playHistoryCaught(
                       ~(out = "ok" /\ playHistoryCreate(users, songs,
                                           user[r].userId, req[r].id) = "ok")),
                  "success")
    /\ UNCHANGED <<users, songs, playlists, items, blobs, tasks, now, req,
                   user, local>>
    /\ UNCHANGED <<catalogVars, runVars>>

\* POST /songs/:id/stream-url: the lookup of the song.
StreamFind(r) ==
    /\ pc[r] = "POST /songs/:id/stream-url"
    /\ \E out \in Outcomes :
         /\ Fault(r, out, "song.findUnique")
         /\ IF out = "reject"
            THEN /\ Reply(r, 500, "Gagal membuat streaming URL.")
                 /\ UNCHANGED local
            ELSE IF req[r].id \in Ids(songs)
                 THEN /\ local' = [local EXCEPT ![r].audioKey =
                                      RowOf(songs, req[r].id).audioKey]
                      /\ Goto(r, "stream:sign")
                 ELSE /\ Reply(r, 404, "Lagu tidak ditemukan.")
                      /\ UNCHANGED local
    /\ UNCHANGED <<dbVars, tasks, nextId, now, req, user, calls>>
    /\ UNCHANGED <<catalogVars, runVars>>

\* What stream-url does once the URL is signed: with the history append left
\* pending, or (not the code) awaited with its failure answered.
StreamRespondAwaiting(r) ==
    /\ \E out \in Outcomes :
         IF out = "ok" /\ playHistoryCreate(users, songs, user[r].userId,
                                            req[r].id) = "ok"
         THEN /\ history' = history \cup
                   { HistoryRow(nextId, user[r].userId, req[r].id) }
              /\ nextId' = nextId + 1
              /\ Reply(r, 200, local[r].audioKey)
         ELSE /\ UNCHANGED <<history, nextId>>
              /\ Reply(r, 500, "Gagal membuat streaming URL.")
    /\ UNCHANGED tasks

StreamRespond(r) ==
    /\ tasks' = tasks \cup
           { HistoryTask(nextId, r, user[r].userId, req[r].id) }
    /\ nextId' = nextId + 1
    /\ Reply(r, 200, local[r].audioKey)
    /\ UNCHANGED history

\* POST /songs/:id/stream-url: getSignedUrl, then the history append started
\* and not awaited, then the answer.
StreamSign(r) ==
    /\ pc[r] = "stream:sign"
    /\ \E out \in Outcomes :
         /\ Fault(r, out, "getSignedUrl")
         /\ IF out = "reject"
            THEN /\ Reply(r, 500, "Gagal membuat streaming URL.")
                 /\ UNCHANGED <<tasks, calls, history, nextId>>
            ELSE /\ Issue(r, {"playHistory.create"})
                 /\ StreamRespond(r)
    /\ UNCHANGED <<users, songs, playlists, items, blobs, now, req, user,
                   local>>
    /\ UNCHANGED <<catalogVars, runVars>>

\* The pending history append settles: the row is written, or the rejection
\* goes to the empty catch.
HistorySettle(t) ==
    /\ t \in tasks
    /\ t.kind = "playHistory.create"
    /\ tasks' = tasks \ {t}
    /\ \E out \in Outcomes :
         /\ Fault(t.slot, out, "playHistory.create")
         /\ IF out = "ok" /\ playHistoryCreate(users, songs, t.userId,
                                               t.songId) = "ok"
            THEN /\ history' = history \cup
                      { HistoryRow(nextId, t.userId, t.songId) }
                 /\ nextId' = nextId + 1
            ELSE UNCHANGED <<history, nextId>>
    /\ UNCHANGED <<users, songs, playlists, items, blobs, now, req, pc, user,
                   local, resp, calls>>
    /\ UNCHANGED <<catalogVars, runVars>>

\* PATCH /songs/:id (title stands for the fields of the body).
PatchSong(r) ==
    /\ pc[r] = "PATCH /songs/:id"
    /\ Issue(r, {"song.update"})
    /\ \E out \in Outcomes :
         /\ Fault(r, out, "song.update")
         /\ IF out = "reject" \/ req[r].id \notin Ids(songs)
            THEN /\ UNCHANGED songs
                 /\ Reply(r, 500, "Gagal memperbarui lagu.")
            ELSE /\ songs' = { IF s.id = req[r].id /\ req[r].name # NoVal
                               THEN [s EXCEPT !.title = req[r].name] ELSE s :
                               s \in songs }
                 /\ Reply(r, 200, "song")
    /\ UNCHANGED <<users, playlists, items, history, blobs, tasks, nextId,
                   now, req, user, local>>
    /\ UNCHANGED <<catalogVars, runVars>>

\* DELETE /songs/:id: the lookup of the song.
DeleteSongFind(r) ==
    /\ pc[r] = "DELETE /songs/:id"
    /\ \E out \in Outcomes :
         /\ Fault(r, out, "song.findUnique")
         /\ IF out = "reject"
            THEN /\ Reply(r, 500, "Gagal menghapus lagu.")
                 /\ UNCHANGED local
            ELSE IF req[r].id \in Ids(songs)
                 THEN /\ local' = [local EXCEPT ![r].audioKey =
                                      RowOf(songs, req[r].id).audioKey]
                      /\ Goto(r, "deleteSong:delete")
                 ELSE /\ Reply(r, 404, "Lagu tidak ditemukan.")
                      /\ UNCHANGED local
    /\ UNCHANGED <<dbVars, tasks, nextId, now, req, user, calls>>
    /\ UNCHANGED <<catalogVars, runVars>>

\* What DELETE /songs/:id does with the row and the blob once the song is
\* found: the code's order, or (not the code) the blob removed first and
\* awaited.
DeleteSongBlobFirst(r, out) ==
    /\ UNCHANGED <<tasks, nextId>>
    /\ songArtists' = IF out = "reject" THEN songArtists
                      ELSE { p \in songArtists : p.songId # req[r].id }
    /\ IF out = "reject"
       THEN /\ UNCHANGED <<songs, items, history, blobs>>
            /\ Issue(r, {"r2.delete"})
            /\ Reply(r, 500, "Gagal menghapus lagu.")
       ELSE /\ blobs' = blobs \ {local[r].audioKey}
            /\ songs' = { s \in songs : s.id # req[r].id }
            /\ items' = { i \in items : i.songId # req[r].id }
            /\ history' = { h \in history : h.songId # req[r].id }
            /\ Issue(r, {"r2.delete", "song.delete"})
            /\ Reply(r, 200, "Lagu dan file berhasil dihapus.")

DeleteSongRowFirst(r, out) ==
    /\ UNCHANGED blobs
    /\ songArtists' = IF out = "reject" THEN songArtists
                      ELSE { p \in songArtists : p.songId # req[r].id }
    /\ IF out = "reject" \/ req[r].id \notin Ids(songs)
       THEN /\ UNCHANGED <<songs, items, history, tasks, nextId>>
            /\ Issue(r, {"song.delete"})
            /\ Reply(r, 500, "Gagal menghapus lagu.")
       ELSE /\ songs' = { s \in songs : s.id # req[r].id }
            /\ items' = { i \in items : i.songId # req[r].id }
            /\ history' = { h \in history : h.songId # req[r].id }
            /\ IF local[r].audioKey # ""
               THEN /\ tasks' = tasks \cup
                         { BlobDeleteTask(nextId, r, local[r].audioKey) }
                    /\ nextId' = nextId + 1
                    /\ Issue(r, {"song.delete", "r2.delete"})
               ELSE /\ UNCHANGED <<tasks, nextId>>
                    /\ Issue(r, {"song.delete"})
            /\ Reply(r, 200, "Lagu dan file berhasil dihapus.")

\* DELETE /songs/:id: the row deleted (cascading to its playlist items, its
\* history and its artist links), the blob delete started and not awaited, the answer.
DeleteSongDelete(r) ==
    /\ pc[r] = "deleteSong:delete"
    /\ \E out \in Outcomes :
         /\ Fault(r, out, "song.delete")
         /\ DeleteSongRowFirst(r, out)
    /\ UNCHANGED <<users, playlists, now, req, user, local>>
    /\ UNCHANGED <<artists, runVars>>

\* The pending blob delete settles: the object is gone, or the rejection is
\* logged.
BlobDeleteSettle(t) ==
    /\ t \in tasks
    /\ t.kind = "r2.delete"
    /\ tasks' = tasks \ {t}
    /\ \E out \in Outcomes :
         /\ Fault(t.slot, out, "r2.delete")
         /\ blobs' = IF out = "ok" THEN blobs \ {t.key} ELSE blobs
    /\ UNCHANGED <<users, songs, playlists, items, history, nextId, now, req,
                   pc, user, local, resp, calls>>
    /\ UNCHANGED <<catalogVars, runVars>>

\* POST /songs/:id/generate-lyrics: the lookup of the song, which the handler
\* awaits before its try block: a rejection leaves the handler as an
\* unhandled rejection and no response is sent.
LyricsFind(r) ==
    /\ pc[r] = "POST /songs/:id/generate-lyrics"
    /\ \E out \in Outcomes :
         /\ Fault(r, out, "song.findUnique")
         /\ IF out = "reject"
            THEN Goto(r, "unhandledRejection")
            ELSE IF req[r].id \in Ids(songs)
                 THEN Goto(r, "lyrics:fetch")
                 ELSE Reply(r, 404, "Lagu tidak ditemukan.")
    /\ UNCHANGED <<dbVars, tasks, nextId, now, req, user, local, calls>>
    /\ UNCHANGED <<catalogVars, runVars>>

\* POST /songs/:id/generate-lyrics: the AI call; a network error, a status
\* that is not ok, a body without content or content that is not JSON all
\* throw inside the try block.
LyricsFetch(r) ==
    /\ pc[r] = "lyrics:fetch"
    /\ Issue(r, {"openrouter.fetch"})
    /\ \E out \in Outcomes :
         /\ Fault(r, out, "openrouter.fetch")
         /\ IF out = "reject"
            THEN Reply(r, 500, "Gagal generate lirik via AI.")
            ELSE Goto(r, "lyrics:update")
    /\ UNCHANGED <<dbVars, tasks, nextId, now, req, user, local>>
    /\ UNCHANGED <<catalogVars, runVars>>

\* POST /songs/:id/generate-lyrics: the update of the song and the answer.
LyricsUpdate(r) ==
    /\ pc[r] = "lyrics:update"
    /\ Issue(r, {"song.update"})
    /\ \E out \in Outcomes :
         /\ Fault(r, out, "song.update")
         /\ IF out = "reject" \/ req[r].id \notin Ids(songs)
            THEN /\ UNCHANGED songs
                 /\ Reply(r, 500, "Gagal generate lirik via AI.")
            ELSE /\ songs' = { IF s.id = req[r].id
                               THEN [s EXCEPT !.lyrics = "lyrics"] ELSE s :
                               s \in songs }
                 /\ Reply(r, 200, "song")
    /\ UNCHANGED <<users, playlists, items, history, blobs, tasks, nextId,
                   now, req, user, local>>
    /\ UNCHANGED <<catalogVars, runVars>>

\* Time passes.
Tick ==
    /\ now < MaxNow
    /\ now' = now + 1
    /\ UNCHANGED <<dbVars, tasks, nextId, req, pc, user, local, resp, calls,
                   faults>>
    /\ UNCHANGED <<catalogVars, runVars>>

----------------------------------------------------------------------------
(* routes/songs: titles.  A title is the sequence of its words; "-" and    *)
(* the separators of artist names are words of their own.                  *)

RECURSIVE Join(_, _)
Join(words, sep) ==
    IF words = <<>> THEN ""
    ELSE IF Len(words) = 1 THEN words[1]
    ELSE words[1] \o sep \o Join(Tail(words), sep)

\* title.indexOf('-'): the place of the first "-", 0 for none.
IndexOfDash(title) ==
    IF \E i \in 1..Len(title) : title[i] = "-"
    THEN CHOOSE i \in 1..Len(title) :
            title[i] = "-" /\ \A j \in 1..(i - 1) : title[j] # "-"
    ELSE 0

LastIndexOfDash(title) ==
    IF \E i \in 1..Len(title) : title[i] = "-"
    THEN CHOOSE i \in 1..Len(title) :
            title[i] = "-" /\ \A j \in (i + 1)..Len(title) : title[j] # "-"
    ELSE 0

\* rawTitle.split('-')[0].trim() and rawTitle.split('-').pop().trim()
FirstPart(title) ==
    IF IndexOfDash(title) = 0 THEN title
    ELSE SubSeq(title, 1, IndexOfDash(title) - 1)
LastPart(title) == SubSeq(title, LastIndexOfDash(title) + 1, Len(title))

\* The separators parseArtists splits the artist part on: &, comma, and, x,
\* X as written, FEAT and FT in any case.
Separators == {"&", ",", "and", "x", "X", "FEAT", "feat", "Feat", "FT", "ft",
               "Ft"}
IsName(w) == w \notin Separators

parseArtistsNoSplit(title) ==
    IF IndexOfDash(title) = 0 THEN <<>>
    ELSE << Join(SubSeq(title, 1, IndexOfDash(title) - 1), " ") >>

parseArtists(title) ==
    IF IndexOfDash(title) = 0 THEN <<>>
    ELSE SelectSeq(SubSeq(title, 1, IndexOfDash(title) - 1), IsName)

\* The noise the fallback removes from a title.
NoiseWords == {"(Official Video)", "(Official Music Video)",
               "[Official Audio]", "(Lyrics)",
               "Official Music Video", "Official Video", "Music Video",
               "LYRICS", "lyrics"}
IsNotNoise(w) == w \notin NoiseWords

Metadata(title, arts) == [title |-> title, artists |-> arts]

\* rawTitle.split('-').pop()?.trim() || rawTitle
fallbackTitle(rawTitle) ==
    IF LastPart(rawTitle) = <<>> THEN rawTitle ELSE LastPart(rawTitle)

\* artists.length > 0 ? artists : [rawTitle.split('-')[0].trim()]
fallbackArtists(rawTitle) ==
    IF parseArtists(rawTitle) # <<>> THEN parseArtists(rawTitle)
    ELSE << Join(FirstPart(rawTitle), " ") >>

\* cleanMetadataWithAI without OPENROUTER_API_KEY, and its catch block.
standardParser(rawTitle) ==
    Metadata(fallbackTitle(rawTitle), fallbackArtists(rawTitle))
localParser(rawTitle) ==
    Metadata(SelectSeq(fallbackTitle(rawTitle), IsNotNoise),
             fallbackArtists(rawTitle))

\* The titles the downloader reports, and the JSON objects the AI answers
\* with.
RawTitles == { <<"Tulus", "x", "Raisa", "-", "Gajah", "Live",
                 "(Official Video)">>,
               <<"Tulus", "-", "Gajah", "(Official Music Video)">>,
               <<"Tulus", "&", "Raisa", "-", "Duet">>,
               <<"Gajah", "LYRICS">>,
               <<"Monokrom">> }
Stage1Results == { Metadata(<<"Gajah">>, <<"Tulus", "Raisa">>) }
Stage2Results == { Metadata(<<"Gajah">>, <<"Tulus">>),
                   Metadata(<<>>, NoArray) }

\* How a call of the AI endpoint may end: the fetch rejects, the status is
\* not a success, the body is not JSON, the content holds no {...}, the
\* {...} does not parse, or it parses to one of the results.
AiFailures == {"network", "status", "unparsable", "noJson", "badJson"}
AiOutcomes(results) ==
    { [kind |-> k, title |-> <<>>, artists |-> NoArray] : k \in AiFailures }
    \cup { [kind |-> "ok", title |-> m.title, artists |-> m.artists] :
             m \in results }

\* Stage 1 of the cleanup (songs.ts 584-595): what throws into the catch.
stage1Throws(out) == out.kind \in AiFailures

\* Stage 2 of the cleanup (songs.ts 599-638) given stage 1's object: no check
\* of the status; a body with no choices or no {...} gives stage 1's result;
\* a rejected fetch, a body that is not JSON and a {...} that does not parse
\* throw into the catch of the whole function.
stage2(rawTitle, initialResult, out) ==
    IF out.kind \in {"network", "unparsable", "badJson"}
    THEN localParser(rawTitle)
    ELSE IF out.kind \in {"status", "noJson"}
    THEN Metadata(IF initialResult.title # <<>> THEN initialResult.title
                  ELSE fallbackTitle(rawTitle),
                  IF initialResult.artists # NoArray
                  THEN initialResult.artists
                  ELSE << Join(FirstPart(rawTitle), " ") >>)
    ELSE Metadata(IF out.title # <<>> THEN out.title
                  ELSE initialResult.title,
                  IF out.artists # NoArray THEN out.artists
                  ELSE IF initialResult.artists # NoArray
                       THEN initialResult.artists
                       ELSE << Join(FirstPart(rawTitle), " ") >>)

----------------------------------------------------------------------------
(* routes/songs: the enrichment token and the artist lookups.              *)

\* Date.now() at the clock's tick t, in ms: one tick is a minute.
DateNow(t) == t * 60000

\* What the token endpoint answers with: a token and its life in seconds, or
\* a body without access_token.
TokenResponses == { [kind |-> "ok", access_token |-> "t1", expires_in |-> 60],
                    [kind |-> "ok", access_token |-> "t2", expires_in |-> 180],
                    [kind |-> "ok", access_token |-> NoVal, expires_in |-> 0] }
TokenOutcomes ==
    TokenResponses
    \cup { [kind |-> "reject", access_token |-> NoVal, expires_in |-> 0] }

\* getSpotifyToken up to its first await (songs.ts 679-689): "none" without
\* credentials, "cached" with a token in the cache before its expiry, else
\* "refresh".
getSpotifyTokenAtExpiry(e, token, expiry, clock) ==
    IF ~e.SPOTIFY_CLIENT THEN "none"
    ELSE IF token # NoVal /\ DateNow(clock) <= expiry THEN "cached"
    ELSE "refresh"

getSpotifyToken(e, token, expiry, clock) ==
    IF ~e.SPOTIFY_CLIENT THEN "none"
    ELSE IF token # NoVal /\ DateNow(clock) < expiry THEN "cached"
    ELSE "refresh"

\* The expiry stored with a refreshed token (songs.ts 705).
tokenExpiryNoMargin(clock, data) == DateNow(clock) + data.expires_in * 1000

tokenExpiry(clock, data) == DateNow(clock) + data.expires_in * 1000 - 60000

\* One call of enrichArtistMetadata(name): the idx-th of the names of the
\* run in slot r.  pc: "token" while getSpotifyToken's fetch is pending,
\* "search" while the search is, then "done".  refreshed, expiry: what a
\* refresh of this call stored.
Lookup(r, idx, name, at, token) ==
    [slot |-> r, idx |-> idx, name |-> name, pc |-> at, token |-> token,
     refreshed |-> FALSE, expiry |-> 0, avatarUrl |-> NoVal, genres |-> <<>>]

\* The call has returned the avatar and the genres of the artist found.
Found(r, idx, name, avatarUrl, genres) ==
    [Lookup(r, idx, name, "done", NoVal) EXCEPT !.avatarUrl = avatarUrl,
                                                !.genres = genres]

\* enrichArtistMetadata(name) up to its first pending call.
NewLookup(r, idx, name) ==
    LET g == getSpotifyToken(env, spotifyAccessToken, spotifyTokenExpiry, now)
    IN  IF g = "none" THEN Lookup(r, idx, name, "done", NoVal)
        ELSE IF g = "cached"
        THEN Lookup(r, idx, name, "search", spotifyAccessToken)
        ELSE Lookup(r, idx, name, "token", NoVal)

LookupsOf(ls, r) == { l \in ls : l.slot = r }
AllDone(ls, r) == \A l \in LookupsOf(ls, r) : l.pc = "done"

Log(r, kind) == trace' = [trace EXCEPT ![r] = Append(@, kind)]

\* The handler resumes once Promise.all of its lookups has resolved: a preview
\* answers, an ingestion goes on to prisma.song.create.
Joined(r) ==
    IF req[r].route \in PreviewRoutes THEN Reply(r, 200, "preview")
    ELSE Goto(r, "persist")

\* Promise.all(names.map(enrichArtistMetadata)): every lookup starts in the
\* same stretch.
StartEnrich(r, names) ==
    LET new == { NewLookup(r, i, names[i]) : i \in 1..Len(names) }
    IN  /\ lookups' = lookups \cup new
        /\ IF \A l \in new : l.pc = "done"
           THEN Joined(r) ELSE Goto(r, "enrich")

\* A lookup goes from l to m; when that settles the last of its run, the run
\* resumes.
LookupStep(l, m) ==
    /\ lookups' = (lookups \ {l}) \cup {m}
    /\ Log(l.slot, "enrich")
    /\ IF AllDone((lookups \ {l}) \cup {m}, l.slot)
       THEN Joined(l.slot) ELSE UNCHANGED <<pc, resp>>

\* getSpotifyToken's fetch settles (songs.ts 693-711): a token is stored with
\* its expiry and the search starts with it; a rejection or a body without
\* token gives null, and the lookup ends with no data.
TokenSettle(l) ==
    /\ l \in lookups /\ l.pc = "token"
    /\ \E out \in TokenOutcomes :
         /\ IF out.kind = "ok" /\ out.access_token # NoVal
            THEN /\ spotifyAccessToken' = out.access_token
                 /\ spotifyTokenExpiry' = tokenExpiry(now, out)
                 /\ LookupStep(l, [l EXCEPT !.pc = "search",
                                            !.token = out.access_token,
                                            !.refreshed = TRUE,
                                            !.expiry = tokenExpiry(now, out)])
            ELSE /\ UNCHANGED <<spotifyAccessToken, spotifyTokenExpiry>>
                 /\ LookupStep(l, Lookup(l.slot, l.idx, l.name, "done",
                                         NoVal))
    /\ UNCHANGED <<dbVars, catalogVars, tasks, nextId, now, req, user, local,
                   calls, faults, env>>

\* The search settles (songs.ts 719-735): the first artist found gives the
\* avatar and the genres; nothing found or a rejection gives none.
SearchSettle(l) ==
    /\ l \in lookups /\ l.pc = "search"
    /\ \E out \in {"reject", "miss", "hit"} :
         LookupStep(l, IF out = "hit"
                       THEN Found(l.slot, l.idx, l.name, "img", <<"pop">>)
                       ELSE Lookup(l.slot, l.idx, l.name, "done", NoVal))
    /\ UNCHANGED <<dbVars, catalogVars, tasks, nextId, now, req, user, local,
                   calls, faults, env, spotifyAccessToken,
                   spotifyTokenExpiry>>

----------------------------------------------------------------------------
(* routes/songs: metadata cleanup and the previews.                        *)

\* finalTitle and finalArtistNames (songs.ts 850-858, 970-971): the body's
\* where it gives them, else the ones found.  A preview's body gives none.
finalMetadataAllOrNothing(custom, meta) ==
    IF custom = "full" THEN Metadata(CustomTitle, CustomNames) ELSE meta

finalMetadata(custom, meta) ==
    Metadata(IF custom \in {"title", "full"} THEN CustomTitle ELSE meta.title,
             IF custom \in {"names", "full"} THEN CustomNames
             ELSE meta.artists)

\* Where a handler goes once the title and the artists are determined: a
\* preview starts the lookups (songs.ts 762, 800), an ingestion fetches the
\* binary (863, 975).
afterMetadataEnrichFirst(route) == "enrich"

afterMetadata(route) ==
    IF route \in PreviewRoutes THEN "enrich" ELSE "mp3"

\* The handler goes on with the title and the artists the cleanup gave.
AfterCleanup(r, meta) ==
    LET final == finalMetadata(req[r].custom, meta)
    IN  /\ local' = [local EXCEPT ![r].title = final.title,
                                  ![r].names = final.artists]
        /\ IF afterMetadata(req[r].route) = "enrich"
           THEN StartEnrich(r, final.artists)
           ELSE Goto(r, afterMetadata(req[r].route)) /\ UNCHANGED lookups

\* How the downloader may answer: the fetch rejects, a status that is not a
\* success, a body without data, or the data of the track (for a video its
\* raw title; for a streaming-service track its title and its artists as one
\* comma-separated string).
Track(kind, title, artist) == [kind |-> kind, title |-> title, artist |-> artist]
DownloaderFailures == {"reject", "status", "nodata"}
YtOutcomes ==
    { Track(k, <<>>, <<>>) : k \in DownloaderFailures }
    \cup { Track("data", t, <<>>) : t \in RawTitles }

\* POST /songs/yt-preview: the downloader answers; the cleanup starts (or,
\* without the AI credential, the standard parser gives the metadata).
YtPreviewResolve(r) ==
    /\ pc[r] = "POST /songs/yt-preview"
    /\ Log(r, "resolve")
    /\ \E out \in YtOutcomes :
         /\ Fault(r, IF out.kind = "reject" THEN "reject" ELSE "ok",
                  "downloader")
         /\ IF out.kind = "reject"
            THEN /\ Reply(r, 500, "Gagal preview metadata.")
                 /\ UNCHANGED <<local, lookups>>
            ELSE IF out.kind = "status"
            THEN /\ Reply(r, 502, "Gagal menghubungi API downloader.")
                 /\ UNCHANGED <<local, lookups>>
            ELSE IF out.kind = "nodata"
            THEN /\ Reply(r, 400, "Gagal mendapatkan data dari YouTube.")
                 /\ UNCHANGED <<local, lookups>>
            ELSE IF env.OPENROUTER_API_KEY
            THEN /\ local' = [local EXCEPT ![r].rawTitle = out.title]
                 /\ Goto(r, "ai:step1")
                 /\ UNCHANGED lookups
            ELSE /\ StartEnrich(r, standardParser(out.title).artists)
                 /\ local' = [local EXCEPT
                                ![r].rawTitle = out.title,
                                ![r].title = standardParser(out.title).title,
                                ![r].names = standardParser(out.title).artists]
    /\ UNCHANGED <<dbVars, catalogVars, tasks, nextId, now, req, user, calls,
                   env, spotifyAccessToken, spotifyTokenExpiry>>

\* cleanMetadataWithAI, stage 1 settles: its object is kept and stage 2
\* starts, or the catch gives the local parser's result.
AiStep1(r) ==
    /\ pc[r] = "ai:step1"
    /\ Log(r, "ai")
    /\ \E out \in AiOutcomes(Stage1Results) :
         /\ Fault(r, IF out.kind = "ok" THEN "ok" ELSE "reject", "ai.step1")
         /\ IF stage1Throws(out)
            THEN AfterCleanup(r, localParser(local[r].rawTitle))
            ELSE /\ local' = [local EXCEPT ![r].initialResult =
                                  Metadata(out.title, out.artists)]
                 /\ Goto(r, "ai:step2")
                 /\ UNCHANGED lookups
    /\ UNCHANGED <<dbVars, catalogVars, tasks, nextId, now, req, user, calls,
                   env, spotifyAccessToken, spotifyTokenExpiry>>

\* cleanMetadataWithAI, stage 2 settles.
AiStep2(r) ==
    /\ pc[r] = "ai:step2"
    /\ Log(r, "ai")
    /\ \E out \in AiOutcomes(Stage2Results) :
         /\ Fault(r, IF out.kind = "ok" THEN "ok" ELSE "reject", "ai.step2")
         /\ AfterCleanup(r, stage2(local[r].rawTitle, local[r].initialResult,
                                   out))
    /\ UNCHANGED <<dbVars, catalogVars, tasks, nextId, now, req, user, calls,
                   env, spotifyAccessToken, spotifyTokenExpiry>>

\* What the streaming-service downloader reports.
SpotifyTracks == { Track("data", <<"Gajah">>, <<"Tulus", ",", "Raisa">>),
                   Track("data", <<"Monokrom">>, <<"Tulus">>) }
SpotifyOutcomes ==
    { Track(k, <<>>, <<>>) : k \in DownloaderFailures } \cup SpotifyTracks

\* artist.split(',').map(a => a.trim())
splitComma(words) == SelectSeq(words, LAMBDA w : w # ",")

\* The tracks of one artist.
SoloTracks == { t \in SpotifyTracks : Len(splitComma(t.artist)) = 1 }

\* POST /songs/spotify-preview: the downloader answers and the lookups start.
SpotifyPreviewResolve(r, outcomes) ==
    /\ pc[r] = "POST /songs/spotify-preview"
    /\ Log(r, "resolve")
    /\ \E out \in outcomes :
         /\ Fault(r, IF out.kind = "reject" THEN "reject" ELSE "ok",
                  "downloader")
         /\ IF out.kind = "reject"
            THEN /\ Reply(r, 500, "Gagal preview metadata Spotify.")
                 /\ UNCHANGED <<local, lookups>>
            ELSE IF out.kind = "status"
            THEN /\ Reply(r, 502, "Gagal menghubungi API Spotify Downloader.")
                 /\ UNCHANGED <<local, lookups>>
            ELSE IF out.kind = "nodata"
            THEN /\ Reply(r, 400, "Gagal mendapatkan data dari Spotify.")
                 /\ UNCHANGED <<local, lookups>>
            ELSE /\ StartEnrich(r, splitComma(out.artist))
                 /\ local' = [local EXCEPT ![r].title = out.title,
                                           ![r].names = splitComma(out.artist)]
    /\ UNCHANGED <<dbVars, catalogVars, tasks, nextId, now, req, user, calls,
                   env, spotifyAccessToken, spotifyTokenExpiry>>

----------------------------------------------------------------------------
(* routes/songs: the ingestions (yt-download, spotify-download).           *)

\* for (let i = 0; i < 3; i++) and if (i === 2) throw: the attempts of a
\* retried call of spotify-download, and the wait of its catch.
MaxAttempts == 3

lastAttemptFourth(route, i) == i = MaxAttempts

\* Whether attempt i (from 0) of a call is the last one: yt-download makes its
\* calls once, spotify-download up to MaxAttempts times.
lastAttempt(route, i) ==
    route = "POST /songs/yt-download" \/ i = MaxAttempts - 1

\* How a fetch of spotify-download's loops settles at attempt i: a thrown
\* error waits and tries again, or is rethrown into the handler's catch at
\* the last attempt; a status that is not a success goes straight to the next
\* attempt, or leaves the loop to the error response after the last.
Retry(r, next, status, body) ==
    \E out \in {"reject", "status"} :
       /\ Fault(r, "reject", next)
       /\ IF lastAttempt(req[r].route, local[r].attempt)
          THEN /\ IF out = "reject"
                  THEN Reply(r, 500, "Terjadi kesalahan sistem.")
                  ELSE Reply(r, status, body)
               /\ UNCHANGED local
          ELSE IF out = "reject"
          THEN Goto(r, "wait:" \o next) /\ UNCHANGED local
          ELSE /\ local' = [local EXCEPT ![r].attempt = @ + 1]
               /\ UNCHANGED <<pc, resp>>

\* await new Promise(res => setTimeout(res, 2000)) has elapsed: the next
\* attempt starts.
RetryWait(r) ==
    /\ pc[r] \in {"wait:resolve", "wait:mp3"}
    /\ Log(r, "wait")
    /\ local' = [local EXCEPT ![r].attempt = @ + 1]
    /\ Goto(r, IF pc[r] = "wait:resolve" THEN req[r].route ELSE "mp3")
    /\ UNCHANGED <<dbVars, catalogVars, tasks, nextId, now, req, user, calls,
                   faults, env, spotifyAccessToken, spotifyTokenExpiry,
                   lookups>>

\* POST /songs/yt-download: the downloader answers; the cleanup starts unless
\* the body gave the title and the artists.
YtDownloadResolve(r) ==
    /\ pc[r] = "POST /songs/yt-download"
    /\ Log(r, "resolve")
    /\ \E out \in YtOutcomes :
         /\ Fault(r, IF out.kind = "reject" THEN "reject" ELSE "ok",
                  "downloader")
         /\ IF out.kind = "reject"
            THEN /\ Reply(r, 500, "Terjadi kesalahan sistem.")
                 /\ UNCHANGED <<local, lookups>>
            ELSE IF out.kind = "status"
            THEN /\ Reply(r, 502, "Gagal menghubungi API downloader.")
                 /\ UNCHANGED <<local, lookups>>
            ELSE IF out.kind = "nodata"
            THEN /\ Reply(r, 400, "Gagal mendapatkan data dari YouTube.")
                 /\ UNCHANGED <<local, lookups>>
            ELSE IF req[r].custom = "full"
            THEN AfterCleanup(r, Metadata(<<>>, NoArray))
            ELSE IF env.OPENROUTER_API_KEY
            THEN /\ local' = [local EXCEPT ![r].rawTitle = out.title]
                 /\ Goto(r, "ai:step1")
                 /\ UNCHANGED lookups
            ELSE AfterCleanup(r, standardParser(out.title))
    /\ UNCHANGED <<dbVars, catalogVars, tasks, nextId, now, req, user, calls,
                   env, spotifyAccessToken, spotifyTokenExpiry>>

\* finalTitle and finalArtistNames of spotify-download (songs.ts 970-971):
\* any array the body gives as artistNames is used, an empty one too.
spotifyMetadata(custom, meta) ==
    Metadata(IF custom \in {"title", "full"} THEN CustomTitle ELSE meta.title,
             IF custom \in {"names", "full"} THEN CustomNames
             ELSE IF custom = "noNames" THEN <<>>
             ELSE meta.artists)

\* What the streaming-service downloader may answer to an ingestion: as to a
\* preview, or data without a download link.
SpotifyDownloadOutcomes == SpotifyOutcomes \cup { Track("nolink", <<>>, <<>>) }

\* POST /songs/spotify-download: an attempt of the resolution settles.
SpotifyDownloadResolve(r) ==
    /\ pc[r] = "POST /songs/spotify-download"
    /\ Log(r, "resolve")
    /\ \/ /\ Retry(r, "resolve", 502,
                   "Gagal menghubungi API Spotify Downloader.")
          /\ UNCHANGED lookups
       \/ \E out \in SpotifyDownloadOutcomes :
            /\ out.kind \in {"nodata", "nolink", "data"}
            /\ UNCHANGED faults
            /\ IF out.kind = "nodata"
               THEN /\ Reply(r, 400, "Gagal mendapatkan data dari Spotify.")
                    /\ UNCHANGED <<local, lookups>>
               ELSE IF out.kind = "nolink"
               THEN /\ Reply(r, 400, "Link download tidak ditemukan.")
                    /\ UNCHANGED <<local, lookups>>
               ELSE LET final == spotifyMetadata(req[r].custom,
                                     Metadata(out.title,
                                              splitComma(out.artist)))
                    IN  /\ local' = [local EXCEPT ![r].title = final.title,
                                                  ![r].names = final.artists,
                                                  ![r].attempt = 0]
                        /\ Goto(r, "mp3")
                        /\ UNCHANGED lookups
    /\ UNCHANGED <<dbVars, catalogVars, tasks, nextId, now, req, user, calls,
                   env, spotifyAccessToken, spotifyTokenExpiry>>

\* The fetch of the binary settles: once in yt-download, an attempt of the
\* loop in spotify-download.
Mp3Fetch(r) ==
    /\ pc[r] = "mp3"
    /\ Log(r, "mp3")
    /\ \/ Retry(r, "mp3", 502, "Gagal mengunduh file MP3.")
       \/ /\ Goto(r, "upload")
          /\ UNCHANGED <<local, faults>>
    /\ UNCHANGED <<dbVars, catalogVars, tasks, nextId, now, req, user, calls,
                   env, spotifyAccessToken, spotifyTokenExpiry, lookups>>

\* objectKey: audio/<unique id>-<title with _ for what is not a letter, a
\* digit, a dot or a dash>.mp3
objectKey(n, title) ==
    "audio/" \o ToString(n) \o "-" \o Join(title, "_") \o ".mp3"

\* Where the handler goes when r2Client.send(PutObjectCommand) has settled: a
\* rejection is thrown into the catch; else the arguments of
\* prisma.song.create are evaluated, which without artistId holds the
\* Promise.all of the lookups.
afterUploadIgnoringFailure(out, artistId) ==
    IF artistId # NoArray THEN "persist" ELSE "enrich"

afterUpload(out, artistId) ==
    IF out = "reject" THEN "catch"
    ELSE IF artistId # NoArray THEN "persist" ELSE "enrich"

\* The blob write settles.
Upload(r) ==
    /\ pc[r] = "upload"
    /\ Log(r, "upload")
    /\ Issue(r, {"r2.put"})
    /\ \E out \in Outcomes :
         LET key == objectKey(nextId, local[r].title)
             to  == afterUpload(out, req[r].artistId)
         IN  /\ Fault(r, out, "r2.put")
             /\ blobs' = IF out = "ok" THEN blobs \cup {key} ELSE blobs
             /\ local' = [local EXCEPT ![r].audioKey = key]
             /\ IF to = "catch"
                THEN /\ Reply(r, 500, "Terjadi kesalahan sistem.")
                     /\ UNCHANGED lookups
                ELSE IF to = "persist"
                THEN Goto(r, "persist") /\ UNCHANGED lookups
                ELSE StartEnrich(r, local[r].names)
    /\ nextId' = nextId + 1
    /\ UNCHANGED <<users, songs, playlists, items, history, catalogVars,
                   tasks, now, req, user, env, spotifyAccessToken,
                   spotifyTokenExpiry>>

NewSongId(n) == "song-" \o ToString(n)

\* POST /songs: prisma.song.create with connect of every id of the body; an
\* id of no artist fails the call (P2025).  The blob is not looked at.
PostSong(r) ==
    /\ pc[r] = "POST /songs"
    /\ Issue(r, {"song.create"})
    /\ \E out \in Outcomes :
         LET ids == { req[r].artistId[i] : i \in DOMAIN req[r].artistId }
             id  == NewSongId(nextId)
         IN  /\ Fault(r, IF ids \subseteq Ids(artists) THEN out ELSE "reject",
                      "song.create")
             /\ IF out = "ok" /\ ids \subseteq Ids(artists)
                THEN /\ songs' = songs \cup
                          { SongRow(id, "Uploaded", req[r].audioKey, 0, NoVal) }
                     /\ songArtists' = songArtists \cup
                          { Link(a, id) : a \in ids }
                     /\ Reply(r, 201, "song")
                ELSE /\ UNCHANGED <<songs, songArtists>>
                     /\ Reply(r, 500, "Gagal menyimpan metadata lagu.")
    /\ nextId' = nextId + 1
    /\ UNCHANGED <<users, playlists, items, history, blobs, tasks, now, req,
                   user, local, artists, runVars>>
NewArtistId(n, i) == "artist-n" \o ToString(n) \o "-" \o ToString(i)
Placeholder(id) == ArtistRow(id, "Unknown Artist", NoVal, NoVal)

\* connectOrCreate by id (songs.ts 898-902): the artists the song is linked
\* to and the rows created, or the P2002 of Artist_name_key when a created
\* row's name is taken.
connectOrCreateById(arts, ids) ==
    LET given   == { ids[i] : i \in 1..Len(ids) }
        missing == given \ Ids(arts)
        taken   == \E a \in arts : a.name = "Unknown Artist"
    IN  IF missing = {} \/ (Cardinality(missing) = 1 /\ ~taken)
        THEN [ok |-> TRUE, linked |-> given,
              artists |-> arts \cup { Placeholder(id) : id \in missing }]
        ELSE [ok |-> FALSE, linked |-> {}, artists |-> arts]

\* connectOrCreate by name (songs.ts 903-913): an artist of that name is
\* connected, else created with what its lookup returned.
connectOrCreateByNameAlwaysCreate(arts, names, ls, n) ==
    LET rows == { ArtistRow(NewArtistId(n, i), names[i], NoVal, NoVal) :
                    i \in 1..Len(names) }
    IN  [ok |-> TRUE, linked |-> Ids(rows), artists |-> arts \cup rows]

connectOrCreateByName(arts, names, ls, n) ==
    LET Of(i) == CHOOSE l \in ls : l.idx = i
        row(i) == IF \E a \in arts : a.name = names[i]
                  THEN CHOOSE a \in arts : a.name = names[i]
                  ELSE ArtistRow(NewArtistId(n, i), names[i], Of(i).avatarUrl,
                                 IF Of(i).genres # <<>> THEN "Genres"
                                 ELSE NoVal)
        rows == { row(i) : i \in 1..Len(names) }
    IN  [ok |-> TRUE, linked |-> Ids(rows), artists |-> arts \cup rows]

\* What the catch of an ingestion leaves in the bucket (songs.ts 924-927,
\* 1041-1044): it answers 500 and issues no call.
ingestCatchDeleting(bs, key) == bs \ {key}

ingestCatch(bs, key) == bs

\* prisma.song.create settles: the row and its artists are written in one
\* transaction, or nothing is, when the store rejects the call or (P2002) a
\* unique index refuses a row.
Persist(r) ==
    /\ pc[r] = "persist"
    /\ Log(r, "persist")
    /\ Issue(r, {"song.create"})
    /\ \E out \in Outcomes :
         LET c == IF req[r].artistId # NoArray
                  THEN connectOrCreateById(artists, req[r].artistId)
                  ELSE connectOrCreateByName(artists, local[r].names,
                                             LookupsOf(lookups, r), nextId)
             id == NewSongId(nextId)
         IN  IF out = "ok" /\ c.ok
             THEN /\ songs' = songs \cup
                       { SongRow(id, Join(local[r].title, " "),
                                 local[r].audioKey, 0, NoVal) }
                  /\ artists' = c.artists
                  /\ songArtists' = songArtists \cup
                       { Link(a, id) : a \in c.linked }
                  /\ Reply(r, 201, "song")
                  /\ UNCHANGED <<faults, blobs>>
             ELSE /\ faults' = [faults EXCEPT ![r] = @ \cup
                        IF out = "ok" THEN {"song.create", "P2002"}
                        ELSE {"song.create"}]
                  /\ blobs' = ingestCatch(blobs, local[r].audioKey)
                  /\ Reply(r, 500, "Terjadi kesalahan sistem.")
                  /\ UNCHANGED <<songs, catalogVars>>
    /\ nextId' = nextId + 1
    /\ UNCHANGED <<users, playlists, items, history, tasks, now, req, user,
                   local, env, spotifyAccessToken, spotifyTokenExpiry,
                   lookups>>

----------------------------------------------------------------------------
(* Specifications.                                                         *)

Init ==
    /\ users = SeedUsers
    /\ songs = SeedSongs
    /\ playlists = SeedPlaylists
    /\ items = {}
    /\ history = {}
    /\ blobs = { s.audioKey : s \in SeedSongs }
    /\ tasks = {}
    /\ nextId = 1
    /\ now = 0
    /\ req = [r \in Reqs |-> NoRequest]
    /\ pc = [r \in Reqs |-> "idle"]
    /\ user = [r \in Reqs |-> NoUser]
    /\ local = [r \in Reqs |-> NoLocal]
    /\ resp = [r \in Reqs |-> NoResponse]
    /\ calls = [r \in Reqs |-> {}]
    /\ faults = [r \in Reqs |-> {}]
    /\ artists = SeedArtists
    /\ songArtists = SeedSongArtists
    /\ env = Configured
    /\ spotifyAccessToken = NoVal
    /\ spotifyTokenExpiry = 0
    /\ lookups = {}
    /\ trace = [r \in Reqs |-> <<>>]

\* The playlists router serving authenticated requests.
PlaylistSteps(r) ==
    \/ GetPlaylist(r)
    \/ AddSongFindPlaylist(r)
    \/ AddSongFindLast(r)
    \/ AddSongCreate(r)
    \/ PatchPlaylistFind(r)
    \/ PatchPlaylistUpdate(r)
    \/ DeletePlaylistFind(r)
    \/ DeletePlaylistDelete(r)

NextPlaylists ==
    \/ \E r \in Reqs : Dispatch(r, PlaylistRoutes, PlaylistHeaders)
    \/ \E r \in Reqs : PlaylistSteps(r)

SpecPlaylists == Init /\ [][NextPlaylists]_vars

SongSteps(r) ==
    \/ GetSong(r)
    \/ PlayUpdate(r)
    \/ PlayHistory(r)
    \/ StreamFind(r)
    \/ StreamSign(r)
    \/ PatchSong(r)
    \/ DeleteSongFind(r)
    \/ DeleteSongDelete(r)
    \/ LyricsFind(r)
    \/ LyricsFetch(r)
    \/ LyricsUpdate(r)

Settle == \E t \in tasks : HistorySettle(t) \/ BlobDeleteSettle(t)

\* Logins.
NextLogin ==
    \/ \E r \in Reqs : Dispatch(r, {"POST /auth/login"}, {NoHeader})
    \/ \E r \in Reqs : LoginVerify(r)
    \/ \E r \in Reqs : LoginUpsertFind(r)
    \/ \E r \in Reqs : LoginUpsertWrite(r)

SpecLogin == Init /\ [][NextLogin]_vars

\* The state after construction but for env.
Constructed ==
    /\ users = SeedUsers
    /\ songs = SeedSongs
    /\ playlists = SeedPlaylists
    /\ items = {}
    /\ history = {}
    /\ blobs = { s.audioKey : s \in SeedSongs }
    /\ tasks = {}
    /\ nextId = 1
    /\ now = 0
    /\ req = [r \in Reqs |-> NoRequest]
    /\ pc = [r \in Reqs |-> "idle"]
    /\ user = [r \in Reqs |-> NoUser]
    /\ local = [r \in Reqs |-> NoLocal]
    /\ resp = [r \in Reqs |-> NoResponse]
    /\ calls = [r \in Reqs |-> {}]
    /\ faults = [r \in Reqs |-> {}]
    /\ artists = SeedArtists
    /\ songArtists = SeedSongArtists
    /\ spotifyAccessToken = NoVal
    /\ spotifyTokenExpiry = 0
    /\ lookups = {}
    /\ trace = [r \in Reqs |-> <<>>]

\* One preview, with every configuration of the credentials, at any time.
InitPreview == Constructed /\ env \in { Env(a, b) : a, b \in BOOLEAN }

NextPreview ==
    \/ Dispatch(1, PreviewRoutes, AdminHeaders)
    \/ YtPreviewResolve(1)
    \/ AiStep1(1)
    \/ AiStep2(1)
    \/ SpotifyPreviewResolve(1, SpotifyOutcomes)
    \/ \E l \in lookups : TokenSettle(l)
    \/ \E l \in lookups : SearchSettle(l)
    \/ Tick

SpecPreview == InitPreview /\ [][NextPreview]_vars

\* Previews of streaming-service tracks side by side: the callers of
\* getSpotifyToken, with the enrichment credentials configured or not.
InitToken == Constructed /\ env \in { Env(TRUE, b) : b \in BOOLEAN }

NextToken ==
    \/ \E r \in Reqs :
          Dispatch(r, {"POST /songs/spotify-preview"}, AdminHeaders)
    \/ \E r \in Reqs : SpotifyPreviewResolve(r, SoloTracks)
    \/ \E l \in lookups : TokenSettle(l)
    \/ \E l \in lookups : SearchSettle(l)
    \/ Tick

SpecToken == InitToken /\ [][NextToken]_vars

\* One ingestion, with every credential configured.
NextIngest ==
    \/ Dispatch(1, IngestRoutes, AdminHeaders)
    \/ YtDownloadResolve(1)
    \/ AiStep1(1)
    \/ AiStep2(1)
    \/ SpotifyDownloadResolve(1)
    \/ RetryWait(1)
    \/ Mp3Fetch(1)
    \/ Upload(1)
    \/ \E l \in lookups : TokenSettle(l)
    \/ \E l \in lookups : SearchSettle(l)
    \/ Persist(1)

SpecIngest == Init /\ [][NextIngest]_vars

\* The same, where every call the run awaits settles.
SpecIngestFair == SpecIngest /\ WF_vars(NextIngest)

\* Ingestions of videos side by side, each with the source reference alone in
\* its body, no credential configured: the standard parser gives the title
\* and the artists.
InitCatalog == Constructed /\ env = Env(FALSE, FALSE)

NextCatalog ==
    \/ \E r \in Reqs :
          /\ Dispatch(r, {"POST /songs/yt-download"}, AdminHeaders)
          /\ req'[r].url # NoVal
          /\ req'[r].artistId = NoArray
          /\ req'[r].custom = "none"
    \/ \E r \in Reqs : YtDownloadResolve(r)
    \/ \E r \in Reqs : Mp3Fetch(r)
    \/ \E r \in Reqs : Upload(r)
    \/ \E r \in Reqs : Persist(r)

SpecCatalog == InitCatalog /\ [][NextCatalog]_vars

\* Songs registered, ingested and deleted by admins, side by side.  An
\* ingestion's body holds the source reference and, or not, an empty artistId.
NextLibrary ==
    \/ \E r \in Reqs :
          Dispatch(r, {"POST /songs", "DELETE /songs/:id"}, AdminHeaders)
    \/ \E r \in Reqs :
          /\ Dispatch(r, {"POST /songs/yt-download"}, AdminHeaders)
          /\ req'[r].url # NoVal
          /\ req'[r].artistId \in {NoArray, <<>>}
          /\ req'[r].custom = "none"
    \/ \E r \in Reqs : PostSong(r)
    \/ \E r \in Reqs : DeleteSongFind(r)
    \/ \E r \in Reqs : DeleteSongDelete(r)
    \/ \E t \in tasks : BlobDeleteSettle(t)
    \/ \E r \in Reqs : YtDownloadResolve(r)
    \/ \E r \in Reqs : Mp3Fetch(r)
    \/ \E r \in Reqs : Upload(r)
    \/ \E r \in Reqs : Persist(r)

SpecLibrary == InitCatalog /\ [][NextLibrary]_vars

\* The songs router serving authenticated requests.
NextSongs ==
    \/ \E r \in Reqs : Dispatch(r, SongUserRoutes \cup SongAdminRoutes,
                                  SongHeaders)
    \/ \E r \in Reqs : SongSteps(r)
    \/ Settle

SpecSongs == Init /\ [][NextSongs]_vars

\* Additions to a playlist, plays and deletions of playlists and of songs,
\* side by side.
IntegrityRoutes == {"POST /playlists/:id/songs", "DELETE /playlists/:id",
                    "POST /songs/:id/stream-url", "DELETE /songs/:id"}

NextIntegrity ==
    \/ \E r \in Reqs : Dispatch(r, IntegrityRoutes, SongHeaders)
    \/ \E r \in Reqs : AddSongFindPlaylist(r)
    \/ \E r \in Reqs : AddSongFindLast(r)
    \/ \E r \in Reqs : AddSongCreate(r)
    \/ \E r \in Reqs : DeletePlaylistFind(r)
    \/ \E r \in Reqs : DeletePlaylistDelete(r)
    \/ \E r \in Reqs : StreamFind(r)
    \/ \E r \in Reqs : StreamSign(r)
    \/ \E r \in Reqs : DeleteSongFind(r)
    \/ \E r \in Reqs : DeleteSongDelete(r)
    \/ Settle

SpecIntegrity == Init /\ [][NextIntegrity]_vars

\* The role of a User row rewritten in the store; no route of the service
\* writes the column.
RoleChange ==
    /\ \E u \in users, role \in {"USER", "ADMIN"} :
         /\ role # u.role
         /\ users' = (users \ {u}) \cup {[u EXCEPT !.role = role]}
    /\ UNCHANGED <<songs, playlists, items, history, blobs, tasks, nextId,
                   now, req, pc, user, local, resp, calls, faults>>
    /\ UNCHANGED <<catalogVars, runVars>>

\* The session tokens the logins answered so far have issued.
IssuedTokens ==
    { local[q].token : q \in { x \in Reqs :
          req[x].route = "POST /auth/login" /\ resp[x].status = 200 } }

\* Logins, role changes and requests to an admin-only route that carry the
\* session token of a seeded user or one a login has issued, with one body.
NextSession ==
    \/ \E r \in Reqs : Dispatch(r, {"POST /auth/login"}, {NoHeader})
    \/ \E r \in Reqs : LoginVerify(r)
    \/ \E r \in Reqs : LoginUpsertFind(r)
    \/ \E r \in Reqs : LoginUpsertWrite(r)
    \/ RoleChange
    \/ \E r \in Reqs :
          /\ Dispatch(r, {"POST /songs"},
                      ValidHeaders \cup { Bearer(t) : t \in IssuedTokens })
          /\ req'[r].audioKey = "audio/new.mp3"
          /\ req'[r].artistId = <<"artist-01">>
    \/ \E r \in Reqs : PostSong(r)

SpecSession == Init /\ [][NextSession]_vars

\* One request with any Authorization header, to any route, at any time.
NextMiddleware ==
    \/ Dispatch(1, PlaylistRoutes \cup SongUserRoutes \cup SongAdminRoutes,
                AllHeaders)
    \/ PlaylistSteps(1)
    \/ SongSteps(1)
    \/ Settle
    \/ Tick

SpecMiddleware == Init /\ [][NextMiddleware]_vars

----------------------------------------------------------------------------
(* Playlists: claims.                                                      *)

ItemsOf(its, pl) == { i \in its : i.playlistId = pl }

\* C1: every PlaylistItem inserted, under any interleaving of add requests,
\* has position 1 + the maximum position among the items its playlist holds
\* at the moment of the insert, and position 1 when the playlist is empty.
C1_PositionIsMaxPlusOne ==
    [][\A it \in items' \ items :
         LET ps == { i.position : i \in ItemsOf(items, it.playlistId) }
         IN  it.position = IF ps = {} THEN 1 ELSE Max(ps) + 1]_vars

\* C2: an add whose (playlist, song) pair is already in the playlist when the
\* insert runs is answered 409 and inserts nothing, and no state holds two
\* PlaylistItems of one (playlist, song) pair.
C2_PairUnique ==
    \A i, j \in items :
        (i.playlistId = j.playlistId /\ i.songId = j.songId) => i = j

C2_ConflictAnswered ==
    \A r \in Reqs :
        (/\ pc[r] = "add:create"
         /\ pc'[r] = "done"
         /\ \E i \in items : i.playlistId = req[r].id /\ i.songId = req[r].songId)
        => (resp'[r].status = 409 /\ items' = items)

C2_NoDuplicateRow == []C2_PairUnique /\ [][C2_ConflictAnswered]_vars

C2_Witness ==
    \E r \in Reqs :
        /\ resp[r].status = 409
        /\ \E i \in items : i.playlistId = req[r].id /\ i.songId = req[r].songId

\* The mutations of a playlist, and a requester who is not the owner of the
\* playlist the request names.
PlaylistMutations == {"POST /playlists/:id/songs", "PATCH /playlists/:id",
                      "DELETE /playlists/:id"}

NotOwner(r) ==
    /\ req[r].route \in PlaylistMutations
    /\ user[r] # NoUser
    /\ \E p \in SeedPlaylists : p.id = req[r].id /\ p.userId # user[r].userId

\* C8 as stated: every mutation of a playlist requested by an authenticated
\* user who does not own it is answered 403.
C8_NotOwnerAlways403 ==
    \A r \in Reqs : (pc[r] = "done" /\ NotOwner(r)) => resp[r].status = 403

\* C8, amended: a mutation requested by a user who does not own the playlist
\* is answered 403, except an add without songId, which is answered 400 before
\* the ownership lookup; no step of such a request changes a playlist or an
\* item.
C8_NotOwnerStep ==
    \A r \in Reqs :
        (pc'[r] # pc[r] /\ NotOwner(r)')
        => /\ playlists' = playlists
           /\ items' = items
           /\ pc'[r] = "done"
              => resp'[r].status =
                    IF req'[r].route = "POST /playlists/:id/songs"
                       /\ req'[r].songId = NoVal
                    THEN 400 ELSE 403

C8_NotOwnerRejected == [][C8_NotOwnerStep]_vars

C8_Witness ==
    \E r \in Reqs :
        /\ pc[r] = "done" /\ NotOwner(r) /\ resp[r].status = 403
        /\ req[r].id \in Ids(playlists)
        /\ ItemsOf(items, req[r].id) # {}

----------------------------------------------------------------------------
(* Middleware: claims.                                                     *)

\* Slot r is dispatched in this step.
Arrives(r) == pc[r] = "idle" /\ pc'[r] # "idle"

\* The handler of slot r has ended, with or without a response.
Ended(r) == pc[r] \in {"done", "unhandledRejection"}

\* A header that carries a session token jwt.verify accepts at the given time.
Verifies(hdr, clock) ==
    /\ hdr.scheme = "Bearer"
    /\ hdr.token.wellFormed
    /\ hdr.token.key = JWT_SECRET
    /\ clock < hdr.token.exp

\* C3: a request with a valid session token of role USER to an admin-only
\* route is answered 403 (never 500) at once, has changed no table, no blob and
\* started no call, and does nothing afterwards.
C3_Step ==
    \A r \in Reqs :
        /\ (/\ Arrives(r)
            /\ req'[r].route \in AdminRoutes
            /\ Verifies(req'[r].hdr, now)
            /\ req'[r].hdr.token.payload.role = "USER")
           => /\ pc'[r] = "done"
              /\ resp'[r].status = 403
              /\ calls'[r] = {}
              /\ UNCHANGED <<dbVars, tasks>>
        /\ (pc[r] = "done" /\ resp[r].status = 403)
           => (pc'[r] = "done" /\ resp'[r] = resp[r] /\ calls'[r] = calls[r])

C3_UserNeverAdmitted == [][C3_Step]_vars

C3_Witness ==
    \E r \in Reqs :
        /\ pc[r] = "done"
        /\ req[r].route \in AdminRoutes
        /\ user[r].role = "USER"
        /\ resp[r].status = 403

\* C4: requireAuth answers 401 and runs nothing downstream when the header is
\* absent, is not a Bearer header or carries a token that fails verification
\* (forged, expired, malformed); when the token verifies, req.user is the
\* decoded payload before any handler code runs.
C4_Step ==
    \A r \in Reqs :
        Arrives(r) =>
            IF Verifies(req'[r].hdr, now)
            THEN /\ user'[r] = req'[r].hdr.token.payload
                 /\ resp'[r].status # 401
            ELSE /\ pc'[r] = "done"
                 /\ resp'[r].status = 401
                 /\ user'[r] = NoUser
                 /\ calls'[r] = {}
                 /\ UNCHANGED <<dbVars, tasks>>

C4_HandlerHasIdentity ==
    \A r \in Reqs :
        (pc[r] \notin {"idle", "done"} \/ calls[r] # {})
        => /\ user[r] # NoUser
           /\ user[r] = req[r].hdr.token.payload
           /\ req[r].hdr.scheme = "Bearer"
           /\ req[r].hdr.token.wellFormed
           /\ req[r].hdr.token.key = JWT_SECRET

C4_RequireAuth == []C4_HandlerHasIdentity /\ [][C4_Step]_vars

C4_Witness ==
    \E r \in Reqs :
        /\ pc[r] = "done"
        /\ resp[r].status = 401
        /\ req[r].hdr.scheme = "Bearer"
        /\ req[r].hdr.token.wellFormed
        /\ req[r].hdr.token.key = JWT_SECRET
        /\ req[r].hdr.token.exp <= now

----------------------------------------------------------------------------
(* Songs: claims.                                                          *)

Pending(kind, r) == { t \in tasks : t.kind = kind /\ t.slot = r }

\* C6: stream-url, once the song is found and the URL signed, starts exactly
\* one PlayHistory append and answers 200 with the signed URL while the append
\* is still pending; no later step (the append succeeding or failing) changes
\* a response already sent, and a settling append adds at most one row.
C6_Step ==
    /\ \A r \in Reqs :
        /\ (/\ pc[r] = "stream:sign"
            /\ pc'[r] # pc[r]
            /\ faults'[r] = faults[r])
           => /\ resp'[r] = Response(200, local[r].audioKey)
              /\ Pending("playHistory.create", r) = {}
              /\ Cardinality(Pending("playHistory.create", r)') = 1
              /\ history' = history
        /\ resp[r].status # 0 => resp'[r] = resp[r]
    /\ \A t \in tasks' \ tasks :
        t.kind = "playHistory.create" => pc[t.slot] = "stream:sign"
    /\ Cardinality(history' \ history) <=
          Cardinality({ t \in tasks \ tasks' : t.kind = "playHistory.create" })
          + Cardinality({ r \in Reqs : pc[r] = "play:history"
                                         /\ pc'[r] # pc[r] })

C6_StreamUrlDoesNotWait == [][C6_Step]_vars

C6_Witness ==
    \E r \in Reqs :
        /\ req[r].route = "POST /songs/:id/stream-url"
        /\ resp[r].status = 200
        /\ "playHistory.create" \in faults[r]
        /\ Pending("playHistory.create", r) = {}
        /\ history = {}

\* C7: DELETE /songs/:id whose row deletion succeeds removes the Song row and
\* answers 200 with the blob still in storage and its delete pending; a
\* request whose row deletion fails issues no blob delete; the blob delete
\* settling, whatever its outcome, changes neither a response sent nor the
\* Song table.
C7_Step ==
    /\ \A r \in Reqs :
        /\ (/\ pc[r] = "deleteSong:delete"
            /\ pc'[r] # pc[r]
            /\ faults'[r] = faults[r]
            /\ req[r].id \in Ids(songs))
           => /\ req[r].id \notin Ids(songs')
              /\ resp'[r].status = 200
              /\ blobs' = blobs
              /\ Pending("r2.delete", r) = {}
              /\ Cardinality(Pending("r2.delete", r)') = 1
        /\ resp[r].status # 0 => resp'[r] = resp[r]
    /\ (tasks' # tasks /\ tasks' \subseteq tasks) => songs' = songs

C7_BlobDeleteAfterRow ==
    \A r \in Reqs :
        ("r2.delete" \in calls[r])
        => /\ req[r].id \notin Ids(songs)
           /\ resp[r].status = 200

C7_RowIsAuthoritative == []C7_BlobDeleteAfterRow /\ [][C7_Step]_vars

C7_Witness ==
    \E r \in Reqs :
        /\ req[r].route = "DELETE /songs/:id"
        /\ resp[r].status = 200
        /\ "r2.delete" \in faults[r]
        /\ Pending("r2.delete", r) = {}
        /\ local[r].audioKey \in blobs
        /\ req[r].id \notin Ids(songs)

\* The request of slot r passed the middleware of its route and every
\* collaborator answered it.
Admitted(r) ==
    /\ user[r] # NoUser
    /\ req[r].route \in AdminRoutes => user[r].role = "ADMIN"
    /\ faults[r] = {}

\* C9: a request that names a song or a playlist by an id no row has is
\* answered 404.
C9_MissingIs404 ==
    \A r \in Reqs :
        (/\ Ended(r)
         /\ Admitted(r)
         /\ req[r].id \notin Ids(SeedSongs) \cup Ids(SeedPlaylists))
        => resp[r].status = 404

\* C10: no handler lets a rejected collaborator call escape: a handler that
\* has ended has sent its response.
C10_EveryFailureAnswered ==
    \A r \in Reqs : Ended(r) => resp[r].status # 0

----------------------------------------------------------------------------
(* Login: claims.                                                          *)

\* The email of the ticket of the login in slot r.
LoginEmail(r) == verifyIdToken(req[r].id).email

\* C5: whatever logins have succeeded, no two User rows share an email and a
\* successful login's answer is the id of the one row of its email; a login
\* that succeeds for an email that has a row creates no row and leaves that
\* row with its id and the ticket's googleId, name and avatar, and one for an
\* email that has no row creates exactly that row.
C5_OneRowPerEmail ==
    /\ \A u, v \in users : u.email = v.email => u = v
    /\ \A r \in Reqs :
         (req[r].route = "POST /auth/login" /\ resp[r].status = 200)
         => /\ Cardinality({ u \in users : u.email = LoginEmail(r) }) = 1
            /\ \A u \in users : u.email = LoginEmail(r) => u.id = resp[r].body

C5_Step ==
    \A r \in Reqs :
        (pc[r] = "login:write" /\ pc'[r] # pc[r] /\ resp'[r].status = 200)
        => LET t == verifyIdToken(req[r].id)
               before == { u \in users : u.email = t.email }
               after == { u \in users' : u.email = t.email }
           IN  /\ Cardinality(after) = 1
               /\ users' \ after = users \ before
               /\ \A u \in before : \A v \in after : v.id = u.id
               /\ \A v \in after :
                    /\ v.googleId = t.sub
                    /\ v.name = IF t.name # NoVal THEN t.name ELSE t.email
                    /\ v.avatarUrl = t.picture

C5_LoginIdempotentOnEmail == []C5_OneRowPerEmail /\ [][C5_Step]_vars

\* Two logins of one email have succeeded, the second one renaming the user.
C5_Witness ==
    \E r, q \in Reqs :
        /\ r # q
        /\ req[r].id = "alice" /\ resp[r].status = 200
        /\ req[q].id = "alice-renamed" /\ resp[q].status = 200
        /\ resp[r].body = resp[q].body
        /\ \E u \in users : u.id = resp[q].body /\ u.name = "e1"

----------------------------------------------------------------------------
(* Play count: claims.                                                     *)

\* songs with the playCount of the song id one higher.
Incremented(sgs, id) ==
    { IF s.id = id THEN [s EXCEPT !.playCount = @ + 1] ELSE s : s \in sgs }

\* C11: POST /songs/:id/play on an existing song, the store answering the
\* update, raises that song's playCount by exactly 1 and no other; once the
\* history append has settled, failed or not, the answer is 200 and the
\* step leaves every Song row, the increment included, as it was.
C11_Step ==
    \A r \in Reqs :
        /\ ( /\ pc[r] = "POST /songs/:id/play" /\ pc'[r] # pc[r]
             /\ req[r].id \in Ids(songs) /\ "song.update" \notin faults'[r] )
           => /\ pc'[r] = "play:history"
              /\ songs' = Incremented(songs, req[r].id)
              /\ songs' # songs
        /\ (pc[r] = "play:history" /\ pc'[r] # pc[r])
           => /\ resp'[r] = Response(200, "success")
              /\ songs' = songs
              /\ Cardinality(history' \ history) <= 1

C11_PlayCounted ==
    \A r \in Reqs :
        (req[r].route = "POST /songs/:id/play" /\ resp[r].status = 200)
        => "song.update" \in calls[r]

C11_HistoryFailureSwallowed == []C11_PlayCounted /\ [][C11_Step]_vars

\* A play was answered 200 though its history append was rejected, and the
\* song's count stands at 1.
C11_Witness ==
    \E r \in Reqs :
        /\ req[r].route = "POST /songs/:id/play"
        /\ resp[r].status = 200
        /\ "playHistory.create" \in faults[r]
        /\ \E s \in songs : s.id = req[r].id /\ s.playCount = 1

----------------------------------------------------------------------------
(* Metadata cleanup: claims.                                               *)

\* C14: with the AI credential configured, when stage 2 of the cleanup fails
\* in any way after stage 1 succeeded, the cleanup gives stage 1's title and
\* artists; when stage 1 fails, it gives the local parser's.
C14_StageFallbacks ==
    [][\A r \in Reqs :
         /\ ( /\ pc[r] = "ai:step2" /\ pc'[r] # pc[r]
              /\ "ai.step2" \in faults'[r] )
            => /\ local'[r].title = local[r].initialResult.title
               /\ local'[r].names = local[r].initialResult.artists
         /\ ( /\ pc[r] = "ai:step1" /\ pc'[r] # pc[r]
              /\ "ai.step1" \in faults'[r] )
            => /\ local'[r].title = localParser(local[r].rawTitle).title
               /\ local'[r].names = localParser(local[r].rawTitle).artists]_vars

----------------------------------------------------------------------------
(* The enrichment token: claims.                                           *)

\* The calls of enrichArtistMetadata, hence of getSpotifyToken, a step starts.
Started ==
    { l \in lookups' :
        \A k \in lookups : k.slot # l.slot \/ k.idx # l.idx }

\* The call l whose refresh a step completes, as the step leaves it.
Refreshing(l) ==
    { m \in lookups' :
        /\ m.slot = l.slot /\ m.idx = l.idx
        /\ l.pc = "token" /\ m.pc = "search" }

CacheValid ==
    spotifyAccessToken # NoVal /\ DateNow(now) < spotifyTokenExpiry

\* A call returns the cached token, untouched, without a request to the
\* provider, exactly when a token is cached and the clock is before its
\* expiry.
C19_CachedExactlyWhenValid ==
    \A l \in Started :
        ( /\ l.pc = "search" /\ ~l.refreshed
          /\ l.token = spotifyAccessToken
          /\ UNCHANGED <<spotifyAccessToken, spotifyTokenExpiry>> )
        <=> CacheValid

\* A refresh that is answered with a token stores that token with the expiry
\* completion time + expires_in s - 60 s, and the call returns it.
C19_RefreshStores ==
    \A l \in lookups : \A m \in Refreshing(l) :
        /\ m.refreshed
        /\ spotifyAccessToken' = m.token
        /\ \E d \in TokenResponses :
             /\ d.access_token = m.token
             /\ spotifyTokenExpiry' =
                  DateNow(now) + d.expires_in * 1000 - 60000

\* C19 (as stated): getSpotifyToken returns the cached token without
\* contacting the provider exactly when a token is cached and the clock is
\* before its expiry; otherwise it requests a new token, which on success it
\* stores with expiry = completion time + expires_in s - 60 s.
C19_AlwaysRefreshesOtherwise ==
    [][/\ C19_CachedExactlyWhenValid
       /\ C19_RefreshStores
       /\ \A l \in Started : ~CacheValid => l.pc = "token"]_vars

\* C19 (amended): as stated when the provider's credentials are configured;
\* without them getSpotifyToken returns null and contacts nobody.  It never
\* returns a cached token at or after its expiry.
C19_TokenCache ==
    [][/\ C19_CachedExactlyWhenValid
       /\ C19_RefreshStores
       /\ \A l \in Started :
            /\ (~CacheValid /\ env.SPOTIFY_CLIENT) => l.pc = "token"
            /\ ~env.SPOTIFY_CLIENT => (l.pc = "done" /\ l.token = NoVal)]_vars

\* A call was served from the cache: a later preview found the token an
\* earlier one had stored, before its expiry.
C19_Witness ==
    \E l, m \in lookups :
        /\ l.slot # m.slot
        /\ l.pc = "search" /\ l.refreshed /\ l.token = spotifyAccessToken
        /\ m.pc = "search" /\ ~m.refreshed /\ m.token = spotifyAccessToken
        /\ DateNow(now) < spotifyTokenExpiry

\* C20: calls of getSpotifyToken that find the cache absent or expired each
\* start a refresh of their own, whatever refreshes are pending; a call whose
\* refresh is answered with a token returns that token; and the cache changes
\* only when a refresh completes, to the token and the expiry of that one
\* response.
C20_Step ==
    /\ \A l \in Started :
         (env.SPOTIFY_CLIENT /\ ~CacheValid) => l.pc = "token"
    /\ \A l \in lookups : \A m \in Refreshing(l) :
         \E d \in TokenResponses :
            /\ m.token = d.access_token /\ d.access_token # NoVal
            /\ m.expiry = DateNow(now) + d.expires_in * 1000 - 60000
            /\ spotifyAccessToken' = m.token
            /\ spotifyTokenExpiry' = m.expiry
    /\ (<<spotifyAccessToken, spotifyTokenExpiry>>' #
          <<spotifyAccessToken, spotifyTokenExpiry>>)
       => \E l \in lookups : Refreshing(l) # {}

C20_CacheIsOneResponse ==
    spotifyAccessToken # NoVal
    => \E d \in TokenResponses : \E t \in 0..now :
          /\ spotifyAccessToken = d.access_token
          /\ spotifyTokenExpiry = DateNow(t) + d.expires_in * 1000 - 60000

C20_LastWriterWins == []C20_CacheIsOneResponse /\ [][C20_Step]_vars

\* Two refreshes overlapped: before the clock has moved, one call holds the
\* long-lived token of its refresh and another the token of its own, which
\* completed last and is the one in the cache.
C20_Witness ==
    \E l, m \in lookups :
        /\ now = 0
        /\ l.pc = "search" /\ l.refreshed /\ l.token = "t2"
        /\ m.pc = "search" /\ m.refreshed /\ m.token = "t1"
        /\ spotifyAccessToken = "t1"
        /\ spotifyTokenExpiry = m.expiry

----------------------------------------------------------------------------
(* The ingestions: claims.                                                 *)

\* How many calls of a kind have settled in a run.
Count(tr, kind) == Cardinality({ i \in DOMAIN tr : tr[i] = kind })

\* The rows of the run in slot r: none of the tables Song and Artist has a
\* row the seed did not put there (the runs are the only writers).
NothingPersisted ==
    /\ songs = SeedSongs
    /\ artists = SeedArtists
    /\ songArtists = SeedSongArtists

C12_Step ==
    \A r \in Reqs :
        ( /\ pc[r] = "upload" /\ pc'[r] # "upload"
          /\ "r2.put" \in faults'[r] )
        => /\ pc'[r] = "done"
           /\ resp'[r].status = 500
           /\ blobs' = blobs

C12_UploadFailed ==
    \A r \in Reqs :
        /\ Count(trace[r], "upload") <= 1
        /\ "r2.put" \in faults[r]
           => /\ req[r].route \in IngestRoutes
              /\ resp[r].status = 500
              /\ Count(trace[r], "upload") = 1
              /\ "song.create" \notin calls[r]
              /\ NothingPersisted

\* C12: in both ingestion routes, when the blob write fails the run answers
\* an error and no Song row and no Artist row is created by it; the blob
\* write is attempted exactly once.
C12_BlobWriteFailure == []C12_UploadFailed /\ [][C12_Step]_vars

C12_Witness ==
    \E r \in Reqs :
        /\ "r2.put" \in faults[r] /\ pc[r] = "done"
        /\ req[r].route = "POST /songs/spotify-download"
        /\ req[r].artistId = NoArray

C13_Step ==
    \A r \in Reqs :
        ( /\ pc[r] = "persist" /\ pc'[r] # "persist"
          /\ "song.create" \in faults'[r] )
        => /\ pc'[r] = "done"
           /\ resp'[r].status = 500
           /\ UNCHANGED <<songs, artists, songArtists, blobs, tasks>>
           /\ calls'[r] = calls[r] \cup {"song.create"}

C13_PersistFailed ==
    \A r \in Reqs :
        "song.create" \in faults[r]
        => /\ resp[r].status = 500
           /\ NothingPersisted
           /\ local[r].audioKey \in blobs
           /\ \A s \in songs : s.audioKey # local[r].audioKey
           /\ calls[r] = {"r2.put", "song.create"}
           /\ tasks = {}

\* C13: when Song persistence fails after the blob write succeeded, the run
\* answers 500, no Song row exists, and the blob it wrote stays in the store,
\* referenced by no row: no delete is issued.
C13_BlobOrphaned == []C13_PersistFailed /\ [][C13_Step]_vars

C13_Witness ==
    \E r \in Reqs :
        /\ "song.create" \in faults[r] /\ pc[r] = "done"
        /\ "r2.put" \notin faults[r]
        /\ local[r].audioKey \in blobs

\* The calls of a run that have settled, the waits between them left out.
Steps(tr) == SelectSeq(tr, LAMBDA k : k # "wait")

\* C15: in spotify-download, between any two consecutive attempts of a
\* retried call (the resolution, the binary fetch) the run waits 2 seconds,
\* after a thrown network error and after a non-success status alike.
C15_WaitBetweenAttempts ==
    \A r \in Reqs : \A i \in DOMAIN trace[r] :
        ( /\ req[r].route = "POST /songs/spotify-download"
          /\ i + 1 \in DOMAIN trace[r]
          /\ trace[r][i] \in {"resolve", "mp3"} )
        => trace[r][i + 1] # trace[r][i]

SpotifyDownload(r) == req[r].route = "POST /songs/spotify-download"

C16_Attempts ==
    \A r \in Reqs :
        SpotifyDownload(r)
        => /\ Count(trace[r], "resolve") <= MaxAttempts
           /\ Count(trace[r], "mp3") <= MaxAttempts
           /\ pc[r] \in {"mp3", "wait:mp3", "upload", "enrich", "persist"}
              => Count(trace[r], "resolve") >= 1
           /\ pc[r] \in {"upload", "enrich", "persist"}
              => Count(trace[r], "mp3") >= 1

\* An attempt is made only inside its loop, which a success leaves; the third
\* attempt succeeds or ends the run with an error response, no blob written
\* and no row created.
C16_Step ==
    \A r \in Reqs :
        SpotifyDownload(r)
        => /\ Count(trace'[r], "resolve") # Count(trace[r], "resolve")
              => /\ pc[r] = req[r].route
                 /\ Count(trace[r], "resolve") = local[r].attempt
                 /\ pc'[r] \in {req[r].route, "wait:resolve", "mp3", "done"}
                 /\ local[r].attempt = MaxAttempts - 1
                    => pc'[r] \in {"mp3", "done"}
           /\ Count(trace'[r], "mp3") # Count(trace[r], "mp3")
              => /\ pc[r] = "mp3"
                 /\ Count(trace[r], "mp3") = local[r].attempt
                 /\ pc'[r] \in {"mp3", "wait:mp3", "upload", "done"}
                 /\ local[r].attempt = MaxAttempts - 1
                    => pc'[r] \in {"upload", "done"}
           /\ ( /\ pc[r] \in {req[r].route, "mp3"}
                /\ pc'[r] = "done" )
              => /\ resp'[r].status >= 400
                 /\ calls'[r] = {}
                 /\ blobs' = blobs /\ blobs = { s.audioKey : s \in SeedSongs }
                 /\ NothingPersisted'

\* C16: in spotify-download the resolution and the binary fetch each make
\* between 1 and 3 attempts, none after the first success; after a third
\* failure the run answers an error with no blob written and no Song row
\* created; and the run always terminates.
C16_BoundedRetries ==
    /\ []C16_Attempts
    /\ [][C16_Step]_vars
    /\ \A r \in Reqs : (pc[r] # "idle") ~> (pc[r] = "done")

C16_Witness ==
    \E r \in Reqs :
        /\ SpotifyDownload(r) /\ pc[r] = "done"
        /\ Count(trace[r], "resolve") = MaxAttempts
        /\ Count(trace[r], "mp3") = MaxAttempts
        /\ resp[r].status >= 400
        /\ calls[r] = {}

\* The steps of an ingestion in the order the handlers take them, and in the
\* order the specification lists them.
HandlerOrder == <<"resolve", "ai", "mp3", "upload", "enrich", "persist">>
ListedOrder == <<"resolve", "ai", "enrich", "mp3", "upload", "persist">>

Rank(order, kind) == CHOOSE i \in DOMAIN order : order[i] = kind

InOrder(tr, order) ==
    \A i, j \in DOMAIN tr :
        i < j => Rank(order, tr[i]) <= Rank(order, tr[j])

Ingestion(r) == req[r].route \in IngestRoutes

\* Only the lookups of a run are in flight together: while one is pending
\* the handler awaits their Promise.all and has no other call out, and
\* nothing is started and left behind.
C17_OnlyLookupsOverlap ==
    \A r \in Reqs :
        Ingestion(r)
        => /\ (\E l \in LookupsOf(lookups, r) : l.pc # "done")
              <=> pc[r] = "enrich"
           /\ tasks = {}

C17_Complete ==
    \A r \in Reqs :
        (Ingestion(r) /\ resp[r].status = 201)
        => /\ \A k \in {"resolve", "mp3", "upload", "persist"} :
                Count(trace[r], k) >= 1
           /\ req[r].artistId = NoArray
              => Count(trace[r], "enrich") >= Len(local[r].names)

C18_EveryIdGetsAnArtist ==
    \A r \in Reqs :
        ( /\ Ingestion(r) /\ req[r].artistId # NoArray
          /\ pc[r] = "done" /\ "song.create" \in calls[r]
          /\ "song.create" \in faults[r] => "P2002" \in faults[r] )
        => /\ resp[r].status = 201
           /\ LookupsOf(lookups, r) = {}
           /\ \A i \in DOMAIN req[r].artistId :
                \E a \in artists :
                   /\ a.id = req[r].artistId[i]
                   /\ a \notin SeedArtists => a.name = "Unknown Artist"
                   /\ \E s \in songs :
                        /\ s.audioKey = local[r].audioKey
                        /\ Link(a.id, s.id) \in songArtists

----------------------------------------------------------------------------
(* The local parser: claims.                                               *)

\* The runs of yt-preview whose metadata the deterministic parser gave:
\* without the AI credential, or after a failure of stage 1.
NoCredentialPath(r) ==
    /\ req[r].route = "POST /songs/yt-preview"
    /\ local[r].rawTitle # <<>>
    /\ ~env.OPENROUTER_API_KEY
Stage1FailedPath(r) ==
    /\ req[r].route = "POST /songs/yt-preview"
    /\ "ai.step1" \in faults[r]

HasDash(raw) == \E i \in DOMAIN raw : raw[i] = "-"
AfterLastDash(raw) ==
    LET last == IF HasDash(raw)
                THEN Max({ i \in DOMAIN raw : raw[i] = "-" }) ELSE 0
    IN  SubSeq(raw, last + 1, Len(raw))
BeforeFirstDash(raw) ==
    LET first == CHOOSE i \in DOMAIN raw :
                    raw[i] = "-" /\ \A j \in 1..(i - 1) : raw[j] # "-"
    IN  SubSeq(raw, 1, first - 1)
WithoutNoise(words) == SelectSeq(words, LAMBDA w : w \notin NoiseWords)
Names(words) == SelectSeq(words, LAMBDA w : w \notin Separators)

\* C23: on every path that uses the deterministic local parser (no AI
\* credential, or stage 1 failed) the title is the text after the last "-"
\* with the noise tokens removed and the artists are the split parts of the
\* text before the first "-"; "Tulus - Gajah (Official Music Video)" gives
\* the title "Gajah" and the artists ["Tulus"].
C23_LocalParserResult ==
    \A r \in Reqs :
        (NoCredentialPath(r) \/ Stage1FailedPath(r))
        => LET raw == local[r].rawTitle
           IN  /\ local[r].title = WithoutNoise(AfterLastDash(raw))
               /\ HasDash(raw)
                  => local[r].names = Names(BeforeFirstDash(raw))
               /\ raw = <<"Tulus", "-", "Gajah", "(Official Music Video)">>
                  => /\ local[r].title = <<"Gajah">>
                     /\ local[r].names = <<"Tulus">>

\* The artist list of the local parser, on each of its paths.
C24_Artists(r) ==
    LET raw == local[r].rawTitle
    IN  /\ local[r].names # <<>>
        /\ ~HasDash(raw) => local[r].names = << Join(raw, " ") >>
        /\ (HasDash(raw) /\ Names(BeforeFirstDash(raw)) # <<>>)
           => /\ local[r].names = Names(BeforeFirstDash(raw))
              /\ \A i \in DOMAIN local[r].names :
                    /\ local[r].names[i] # ""
                    /\ local[r].names[i] \notin Separators
        /\ raw = <<"Tulus", "&", "Raisa", "-", "Duet">>
           => local[r].names = <<"Tulus", "Raisa">>

----------------------------------------------------------------------------
(* The catalogue after ingestions: claims.                                 *)

\* The Song row a run created, and the names of the artists linked to it.
SongOf(r) == { s \in songs : s.audioKey = local[r].audioKey }
ArtistNamesOf(s) ==
    { a.name : a \in { b \in artists : Link(b.id, s.id) \in songArtists } }
Elements(seq) == { seq[i] : i \in DOMAIN seq }

\* C22: in yt-download without an artist id, a body with both a title and a
\* non-empty list of artist names skips the metadata cleanup, and the Song is
\* stored with that title and connected to exactly those names; a body with
\* one of the two still has that one used unchanged.
C22_CustomMetadataVerbatim ==
    \A r \in Reqs :
        ( /\ req[r].route = "POST /songs/yt-download"
          /\ req[r].artistId = NoArray )
        => /\ req[r].custom = "full"
              => /\ Count(trace[r], "ai") = 0
                 /\ local[r].rawTitle = <<>>
                 /\ faults[r] \cap {"ai.step1", "ai.step2"} = {}
           /\ resp[r].status = 201
              => /\ SongOf(r) # {}
                 /\ \A s \in SongOf(r) :
                      /\ req[r].custom \in {"title", "full"}
                         => s.title = Join(CustomTitle, " ")
                      /\ req[r].custom \in {"names", "full"}
                         => ArtistNamesOf(s) = Elements(CustomNames)

C22_Witness ==
    \E r \in Reqs :
        /\ req[r].route = "POST /songs/yt-download"
        /\ req[r].artistId = NoArray /\ req[r].custom = "full"
        /\ resp[r].status = 201
        /\ \E s \in SongOf(r) : ArtistNamesOf(s) = Elements(CustomNames)

Succeeded(r) == Ingestion(r) /\ resp[r].status = 201

C21_Distinct ==
    /\ \A r, q \in Reqs :
         (r # q /\ Succeeded(r) /\ Succeeded(q) /\ req[r].url = req[q].url)
         => /\ Cardinality(SongOf(r)) = 1 /\ Cardinality(SongOf(q)) = 1
            /\ SongOf(r) # SongOf(q)
            /\ local[r].audioKey # local[q].audioKey
            /\ {local[r].audioKey, local[q].audioKey} \subseteq blobs
    /\ \A a, b \in artists : a.name = b.name => a = b
    /\ \A s, t \in songs : s.id = t.id => s = t

\* A run that persists its Song connects, for each of its names, the artist
\* of that name if there is one, and creates a row only for a name no artist
\* has.
C21_Step ==
    \A r \in Reqs :
        (Ingestion(r) /\ req[r].artistId = NoArray /\ songs' # songs
           /\ pc[r] = "persist" /\ pc'[r] = "done")
        => /\ artists \subseteq artists'
           /\ \A a \in artists' \ artists :
                /\ a.name \in Elements(local[r].names)
                /\ \A b \in artists : b.name # a.name
           /\ \A s \in songs' \ songs :
                \A n \in Elements(local[r].names) :
                   \E a \in artists' :
                      /\ a.name = n
                      /\ Link(a.id, s.id) \in songArtists'
                      /\ (\E b \in artists : b.name = n) => a \in artists

\* C21: two successful ingestions of the same source reference produce two
\* distinct Song rows with two distinct blob keys; artists are resolved or
\* created by name: no two Artist rows ever share a name, and a derived name
\* that an Artist already has connects that Artist.
C21_DedupOnlyByArtistName == []C21_Distinct /\ [][C21_Step]_vars

\* Two runs of the same source have both succeeded with the same derived
\* name, which no seeded artist has: one row of that name, linked to both
\* Songs.
C21_Witness ==
    \E r, q \in Reqs :
        /\ r # q /\ Succeeded(r) /\ Succeeded(q)
        /\ req[r].url = req[q].url
        /\ local[r].names = <<"Monokrom">> /\ local[q].names = <<"Monokrom">>
        /\ \E a \in artists \ SeedArtists :
             /\ a.name = "Monokrom"
             /\ \A s \in SongOf(r) \cup SongOf(q) :
                  Link(a.id, s.id) \in songArtists

----------------------------------------------------------------------------
(* Referential integrity: claims.                                          *)

C25_References ==
    /\ \A i \in items :
         i.playlistId \in Ids(playlists) /\ i.songId \in Ids(songs)
    /\ \A h \in history : h.songId \in Ids(songs)
    /\ \A p \in songArtists : p.songId \in Ids(songs)

\* A deletion takes with it, in the same step, the rows that reference the
\* row deleted.
C25_Step ==
    /\ \A p \in playlists \ playlists' :
         \A i \in items' : i.playlistId # p.id
    /\ \A s \in songs \ songs' :
         /\ \A i \in items' : i.songId # s.id
         /\ \A h \in history' : h.songId # s.id
         /\ \A p \in songArtists' : p.songId # s.id

\* C25: after any sequence of operations, a deletion of a song or of a
\* playlist interleaved with a pending history append or a concurrent
\* addition to a playlist included, every PlaylistItem references an existing
\* Playlist and an existing Song and every PlayHistory row an existing Song:
\* deleting a Playlist removes its items, deleting a Song removes its
\* playlist memberships, its history rows and its artist associations.
C25_ReferentialIntegrity == []C25_References /\ [][C25_Step]_vars

\* A song was deleted while the history append of a play of it was pending:
\* the append has settled, refused, and left no row.
C25_Witness ==
    \E r \in Reqs :
        /\ req[r].route = "POST /songs/:id/stream-url"
        /\ req[r].id \notin Ids(songs)
        /\ "playHistory.create" \in calls[r]
        /\ "playHistory.create" \in faults[r]
        /\ tasks = {}
        /\ \E q \in Reqs :
             /\ req[q].route = "DELETE /songs/:id"
             /\ req[q].id = req[r].id
             /\ resp[q].status = 200

\* C26: in every reachable state, after interleaved additions and after
\* deletions of songs that remove items, no two PlaylistItems of one playlist
\* have the same position: ordering a playlist by position is a total order
\* of its items.
C26_PositionsDistinct ==
    \A i, j \in items :
        (i.playlistId = j.playlistId /\ i.position = j.position) => i = j

----------------------------------------------------------------------------
(* Claims about registered songs.                                          *)

\* C27: a deletion never removes from storage a blob whose key is still the
\* audioKey of a remaining Song row.
C27_BlobKeptWhileReferenced ==
    [][\A k \in blobs \ blobs' : \A s \in songs' : s.audioKey # k]_vars

\* C28: every Song row created by POST /songs or an ingestion is associated
\* with at least one Artist from the moment it is created.
C28_CreatedWithAnArtist ==
    [][\A s \in songs' \ songs : \E p \in songArtists' : p.songId = s.id]_vars

----------------------------------------------------------------------------
(* Login: the external identity.                                           *)

\* The rows that hold the subject id of the ticket of the login in slot r
\* under another email than the ticket's.
SubjectHeldBy(r) ==
    LET t == verifyIdToken(req[r].id)
    IN  { u \in users : u.googleId = t.sub /\ u.email # t.email }

C29_OneRowPerSubject ==
    \A u, v \in users :
        (u.googleId # NoVal /\ u.googleId = v.googleId) => u = v

C29_Step ==
    \A r \in Reqs :
        (pc[r] = "login:write" /\ pc'[r] # pc[r] /\ SubjectHeldBy(r) # {})
        => /\ resp'[r] = Response(500, "Gagal melakukan autentikasi.")
           /\ users' = users

\* C29: a login whose verified subject id is stored on a User row with a
\* different email answers 500, issues no session token and leaves every User
\* row unchanged; in every reachable state no two User rows share an
\* external-identity id.
C29_SubjectOfOneRow == []C29_OneRowPerSubject /\ [][C29_Step]_vars

\* A login with the subject id of one user and the email of no user has been
\* answered while that user's row holds the subject id.
C29_Witness ==
    \E r, q \in Reqs :
        /\ req[q].id = "alice" /\ resp[q].status = 200
        /\ req[r].id = "bob-with-alice-sub" /\ resp[r].status = 500
        /\ \E u \in users : u.googleId = "g1" /\ u.email = "e1"
        /\ \A u \in users : u.email # "e4"

----------------------------------------------------------------------------
(* Sessions: the role of a token and the role of the row.                  *)

\* The request of slot r went to an admin-only route with a session token
\* that verified, and the chain let it through to the handler or not.
AdminRequest(r) ==
    /\ pc[r] # "idle"
    /\ req[r].route \in AdminRoutes
    /\ Verifies(req[r].hdr, now)
LetThrough(r) == resp[r].status \notin {401, 403}

\* The role stored on the row of the user a token names (none without a row).
StoredRoles(t) == { u.role : u \in { x \in users : x.id = t.payload.userId } }

C30_SameTokenSameDecision ==
    \A r, q \in Reqs :
        (AdminRequest(r) /\ AdminRequest(q) /\ req[r].hdr = req[q].hdr)
        => (LetThrough(r) <=> LetThrough(q))

C30_Step ==
    \A r \in Reqs :
        /\ (/\ Arrives(r)
            /\ req'[r].route \in AdminRoutes
            /\ Verifies(req'[r].hdr, now))
           => IF req'[r].hdr.token.payload.role = "ADMIN"
              THEN resp'[r].status \notin {401, 403}
              ELSE pc'[r] = "done" /\ resp'[r].status = 403
        /\ (pc[r] = "login:write" /\ pc'[r] # pc[r] /\ resp'[r].status = 200)
           => \E u \in users' :
                /\ u.id = resp'[r].body
                /\ local'[r].token =
                     signToken([userId |-> u.id, email |-> u.email,
                                role |-> u.role])
        /\ (AdminRequest(r) /\ users' # users)
           => (resp'[r] = resp[r] /\ req'[r] = req[r])

\* C30: requireAdmin decides by the role in the session token, which is the
\* role the row had at login, and never by the row: two requests with the same
\* valid token get the same decision whatever role is stored now, and a role
\* change shows only in the tokens of later logins.
C30_RoleOfTheToken == []C30_SameTokenSameDecision /\ [][C30_Step]_vars

\* A login of a seeded user whose row had become ADMIN issued a token, a
\* request with that token was admitted and served, and the row is USER.
C30_Witness ==
    \E r, q \in Reqs :
        /\ req[r].route = "POST /auth/login" /\ resp[r].status = 200
        /\ local[r].token.payload.userId = "u1"
        /\ local[r].token.payload.role = "ADMIN"
        /\ AdminRequest(q) /\ req[q].hdr = Bearer(local[r].token)
        /\ pc[q] = "done" /\ resp[q].status = 201
        /\ StoredRoles(local[r].token) = {"USER"}

====
